---- MODULE Spec2Model ----
(***************************************************************************)
(* go-wc: the streaming counter (pkg/wc CountReader / CountBytes) and the  *)
(* worker pool, collector and totals of cmd main.                          *)
(*                                                                         *)
(* ScanSpec : one CountReader invocation, one step per read, per byte of   *)
(*            the fast path and per rune of the decoding path.             *)
(* PoolSpec : main() from option handling to os.Exit: producer, workers,   *)
(*            stdinOnce, collector, totals.                                *)
(***************************************************************************)
EXTENDS Integers, Sequences, FiniteSets, TLC

VARIABLES
    \* ---- CountReader (ScanSpec) ----
    src,      \* the byte source under the bufio.Reader
    m,        \* Metrics
    opt,      \* Options
    rd,       \* bufio.Reader state
    st,       \* res and the locals of CountReader
    chunk,    \* buf[:n] of the current iteration
    i,        \* position of the fast-path loop in chunk
    data,     \* the decoding loop's remaining bytes
    rerr,     \* err returned by the last r.Read
    pc,       \* position in CountReader
    \* ---- main (PoolSpec); m and opt are its metrics and opts ----
    startup,    \* what option handling came to: "run", "help", "version", "badflag", "badlist"
    cfgJobs,    \* cfg.jobs
    inputs,     \* the input names, in order
    stdin,      \* the bytes on standard input and how they end
    sent,       \* jobs the producer has handed to a worker
    closed,     \* close(jobs) done
    wpc,        \* per worker: position in worker()
    wjob,       \* per worker: the job j in hand
    wfr,        \* per worker: fr
    onceDone,   \* stdinOnce: done
    onceM,      \* stdinOnce: holder of its mutex, 0 when free
    stdinData,
    stdinErr,
    stdinReads, \* how many times io.ReadAll(os.Stdin) was started
    mpc,        \* position in main
    received,   \* iterations of the collection loop done
    pending,
    next,
    all,
    exitCode,
    totals,
    wg,         \* the WaitGroup counter
    printed,    \* lines written to stdout: the FileResult printed
    arrivals,   \* history: the Index of each result, in the order main received them
    status,     \* the process exit status, -1 while running
    \* ---- one call of a function of main, format or locale (CallSpec) ----
    call,       \* the function called and its arguments
    ret         \* what it returned

scanVars == <<src, rd, st, chunk, i, data, rerr, pc>>

confVars == <<m, opt>>

poolVars == <<startup, cfgJobs, inputs, stdin, sent, closed, wpc, wjob, wfr, onceDone, onceM,
              stdinData, stdinErr, stdinReads, mpc, received, pending, next, all, exitCode,
              totals, wg, printed, arrivals, status>>

callVars == <<call, ret>>

vars == <<scanVars, confVars, poolVars, callVars>>

\* ------------------------------------------------------------------ bounds
MaxLen == 2
MaxBuf == 2
MaxInputs == 2
MaxJobs == 2

\* ------------------------------------------------------------- byte values
NL == 10
RuneSelf == 128
RuneError == 65533
MinReadBufferSize == 16

Min(a, b) == IF a < b THEN a ELSE b
Max(a, b) == IF a > b THEN a ELSE b

\* '\n', 'a', a two-byte lead (0xC2) and a continuation byte (0xA0):
\* C2 A0 is U+00A0, which unicode.IsSpace accepts.
Alphabet == {NL, 97, 194, 160}

RECURSIVE SeqsUpTo(_, _)
SeqsUpTo(S, n) ==
    IF n = 0 THEN {<<>>}
    ELSE LET shorter == SeqsUpTo(S, n - 1)
         IN shorter \cup {Append(s, b) : s \in {t \in shorter : Len(t) = n - 1}, b \in S}

\* "a\nbb\nccc\n", "a b\n", "a\na", U+2028 (E2 80 A8), "a" U+00A0 "a",
\* "a" 0x80 "a\n", U+1F600 (F0 9F 98 80), U+0085 "\n" (C2 85 0A), "aa\na\n",
\* " a\tb"
Examples ==
    { <<97, 10, 98, 98, 10, 99, 99, 99, 10>>, <<97, 32, 98, 10>>, <<97, 10, 97>>,
      <<226, 128, 168>>, <<97, 194, 160, 97>>, <<97, 128, 97, 10>>, <<240, 159, 152, 128>>,
      <<194, 133, 10>>, <<97, 97, 10, 97, 10>>, <<32, 97, 9, 98>> }

Inputs == SeqsUpTo(Alphabet, MaxLen) \cup Examples

MetricsSet == [Lines : BOOLEAN, Words : BOOLEAN, Bytes : BOOLEAN, Chars : BOOLEAN,
               MaxLineBytes : BOOLEAN, MaxLineChars : BOOLEAN]

LocaleC     == [IsUTF8 |-> FALSE, IsCOrPOSIX |-> TRUE]
LocaleUTF8  == [IsUTF8 |-> TRUE,  IsCOrPOSIX |-> FALSE]
LocaleOther == [IsUTF8 |-> FALSE, IsCOrPOSIX |-> FALSE]
\* an Info with both flags set, which Options can carry though Detect never returns it
LocaleBoth  == [IsUTF8 |-> TRUE,  IsCOrPOSIX |-> TRUE]
Locales == {LocaleC, LocaleUTF8, LocaleOther, LocaleBoth}

BufferSizes == (1..MaxBuf) \cup {MinReadBufferSize}

\* ---------------------------------------------------------------- ascii.go
\* a table without the vertical tab
asciiSpaceNoVT(b) == b \in {9, 10, 12, 13, 32}

asciiSpace(b) == b \in {9, 10, 11, 12, 13, 32}

\* a whitespace test that leaves out the blank
IsSpaceNoBlank(r) ==
    IF r <= 255 THEN r \in {9, 10, 11, 12, 13, 133, 160}
    ELSE \/ r = 5760
         \/ (r >= 8192 /\ r <= 8202)
         \/ r \in {8232, 8233, 8239, 8287, 12288}

\* unicode.IsSpace
IsSpace(r) ==
    IF r <= 255 THEN r \in {9, 10, 11, 12, 13, 32, 133, 160}
    ELSE \/ r = 5760
         \/ (r >= 8192 /\ r <= 8202)
         \/ r \in {8232, 8233, 8239, 8287, 12288}

\* utf8.DecodeRune: the rune at the head of p and its width; (RuneError, 1)
\* for a byte that starts no complete, well-formed sequence in p.
DecodeRune(p) ==
    LET n == Len(p)
        bad == [r |-> RuneError, size |-> 1]
    IN IF n < 1 THEN [r |-> RuneError, size |-> 0]
       ELSE LET p0 == p[1] IN
         IF p0 < RuneSelf THEN [r |-> p0, size |-> 1]
         ELSE IF p0 < 194 \/ p0 > 244 THEN bad
         ELSE
           LET sz == IF p0 < 224 THEN 2 ELSE IF p0 < 240 THEN 3 ELSE 4
               lo == IF p0 = 224 THEN 160 ELSE IF p0 = 240 THEN 144 ELSE 128
               hi == IF p0 = 237 THEN 159 ELSE IF p0 = 244 THEN 143 ELSE 191
               cont(b) == b >= 128 /\ b <= 191
           IN IF n < sz THEN bad
              ELSE IF p[2] < lo \/ hi < p[2] THEN bad
              ELSE IF sz = 2 THEN [r |-> (p0 % 32) * 64 + (p[2] % 64), size |-> 2]
              ELSE IF ~cont(p[3]) THEN bad
              ELSE IF sz = 3
                   THEN [r |-> (p0 % 16) * 4096 + (p[2] % 64) * 64 + (p[3] % 64), size |-> 3]
              ELSE IF ~cont(p[4]) THEN bad
              ELSE [r |-> (p0 % 8) * 262144 + (p[2] % 64) * 4096 + (p[3] % 64) * 64 + (p[4] % 64),
                    size |-> 4]

\* ------------------------------------------------------------- the sources
\* A source: the bytes it delivers, how it ends ("EOF" or "err"), and whether
\* that end is reported together with the last bytes (eager) or by a later
\* read of zero bytes.
BytesSource(b) == [data |-> b, term |-> "EOF", eager |-> FALSE]

Sources == {[data |-> b, term |-> t, eager |-> e] :
               b \in Inputs, t \in {"EOF", "err"}, e \in BOOLEAN}

\* a Read that reports the end together with the last bytes
SrcReadEager(s, off, lp) ==
    IF off >= Len(s.data) THEN [n |-> 0, err |-> s.term]
    ELSE LET n == Min(lp, Len(s.data) - off)
         IN [n |-> n, err |-> IF off + n = Len(s.data) THEN s.term ELSE "nil"]

\* bytesReader.Read, and a file's Read: up to lp bytes from offset off.
SrcRead(s, off, lp) ==
    IF off >= Len(s.data) THEN [n |-> 0, err |-> s.term]
    ELSE LET n == Min(lp, Len(s.data) - off)
         IN [n |-> n,
             err |-> IF s.eager /\ off + n = Len(s.data) THEN s.term ELSE "nil"]

\* bufio.NewReaderSize
NewReaderSize(size) ==
    [off |-> 0, buffered |-> 0, berr |-> "nil", size |-> Max(size, MinReadBufferSize)]

\* bufio.Reader.Read(p) with len(p) = lp
BufioRead(r, s, lp) ==
    IF lp = 0
    THEN IF r.buffered > 0 THEN [n |-> 0, err |-> "nil", rd |-> r]
         ELSE [n |-> 0, err |-> r.berr, rd |-> [r EXCEPT !.berr = "nil"]]
    ELSE IF r.buffered = 0
    THEN IF r.berr # "nil"
         THEN [n |-> 0, err |-> r.berr, rd |-> [r EXCEPT !.berr = "nil"]]
         ELSE IF lp >= r.size
         THEN LET u == SrcRead(s, r.off, lp)
              IN [n |-> u.n, err |-> u.err, rd |-> [r EXCEPT !.off = @ + u.n]]
         ELSE LET u == SrcRead(s, r.off, r.size)
              IN IF u.n = 0 THEN [n |-> 0, err |-> u.err, rd |-> r]
                 ELSE LET k == Min(lp, u.n)
                      IN [n |-> k, err |-> "nil",
                          rd |-> [r EXCEPT !.off = @ + u.n, !.buffered = u.n - k,
                                           !.berr = u.err]]
    ELSE LET k == Min(lp, r.buffered)
         IN [n |-> k, err |-> "nil", rd |-> [r EXCEPT !.buffered = @ - k]]

\* the bytes r.Read(buf) puts in buf[:n]
ChunkOf(r, s, n) == SubSeq(s.data, r.off - r.buffered + 1, r.off - r.buffered + n)

\* ------------------------------------------------------------- CountReader
\* a scan that starts as if inside a word
InitStateInWord(loc) ==
    [Lines |-> 0, Words |-> 0, Bytes |-> 0, Chars |-> 0,
     MaxLineBytes |-> 0, MaxLineChars |-> 0, Err |-> "nil",
     prevSpace |-> FALSE, curLineBytes |-> 0, curLineChars |-> 0,
     asciiMode |-> (loc.IsCOrPOSIX \/ loc.IsUTF8), carry |-> <<>>]

\* res and the locals of CountReader at entry (lines 338-345)
InitState(loc) ==
    [Lines |-> 0, Words |-> 0, Bytes |-> 0, Chars |-> 0,
     MaxLineBytes |-> 0, MaxLineChars |-> 0, Err |-> "nil",
     prevSpace |-> TRUE, curLineBytes |-> 0, curLineChars |-> 0,
     asciiMode |-> (loc.IsCOrPOSIX \/ loc.IsUTF8), carry |-> <<>>]

\* a newline that records the line just ended instead of the longest
EndLineKeepLast(s, mt) ==
    [s EXCEPT !.Lines = @ + 1,
              !.MaxLineBytes = IF mt.MaxLineBytes THEN s.curLineBytes ELSE @,
              !.MaxLineChars = IF mt.MaxLineChars THEN s.curLineChars ELSE @,
              !.curLineBytes = 0,
              !.curLineChars = 0]

\* a newline closes the line in progress: keep the larger, reset
EndLine(s, mt) ==
    [s EXCEPT !.Lines = @ + 1,
              !.MaxLineBytes = IF mt.MaxLineBytes /\ s.curLineBytes > @ THEN s.curLineBytes ELSE @,
              !.MaxLineChars = IF mt.MaxLineChars /\ s.curLineChars > @ THEN s.curLineChars ELSE @,
              !.curLineBytes = 0,
              !.curLineChars = 0]

\* a line test that also takes U+0085, U+2028 and U+2029 for line ends
AtAnyLineBreak(mt, b) == mt.Lines /\ b \in {NL, 133, 8232, 8233}

\* the branch taken when a '\n' is seen
AtNewline(mt, b) == mt.Lines /\ b = NL

\* word counting that does not ask whether words are selected
CountWordAlways(s, mt, sp) ==
    [s EXCEPT !.Words = IF ~sp /\ s.prevSpace THEN @ + 1 ELSE @, !.prevSpace = sp]

\* word counting: a word starts where a non-space follows a space
CountWord(s, mt, sp) ==
    IF mt.Words
    THEN [s EXCEPT !.Words = IF ~sp /\ s.prevSpace THEN @ + 1 ELSE @, !.prevSpace = sp]
    ELSE s

\* a byte of the fast path that counts as two characters of the line
AsciiByteTwoChars(s, b, mt) ==
    LET s1 == IF AtNewline(mt, b)
              THEN EndLine(s, mt)
              ELSE [s EXCEPT !.curLineBytes = IF mt.MaxLineBytes THEN @ + 1 ELSE @,
                             !.curLineChars = IF mt.MaxLineChars THEN @ + 2 ELSE @]
    IN CountWord(s1, mt, asciiSpace(b))

\* one byte of the ASCII fast path (lines 365-392)
AsciiByte(s, b, mt) ==
    LET s1 == IF AtNewline(mt, b)
              THEN EndLine(s, mt)
              ELSE [s EXCEPT !.curLineBytes = IF mt.MaxLineBytes THEN @ + 1 ELSE @,
                             !.curLineChars = IF mt.MaxLineChars THEN @ + 1 ELSE @]
    IN CountWord(s1, mt, asciiSpace(b))

\* an invalid byte that is dropped without being counted as a character
InvalidByteNotCounted(s, b, mt) ==
    LET s1 == [s EXCEPT !.curLineBytes = IF mt.MaxLineBytes THEN @ + 1 ELSE @,
                        !.curLineChars = IF mt.MaxLineChars THEN @ + 1 ELSE @]
        s2 == IF AtNewline(mt, b) THEN EndLine(s1, mt) ELSE s1
    IN CountWord(s2, mt, asciiSpace(b))

\* an invalid byte of the decoding path (lines 406-438)
InvalidByte(s, b, mt) ==
    LET s1 == [s EXCEPT !.Chars = IF mt.Chars THEN @ + 1 ELSE @,
                        !.curLineBytes = IF mt.MaxLineBytes THEN @ + 1 ELSE @,
                        !.curLineChars = IF mt.MaxLineChars THEN @ + 1 ELSE @]
        s2 == IF AtNewline(mt, b) THEN EndLine(s1, mt) ELSE s1
    IN CountWord(s2, mt, asciiSpace(b))

\* a rune whose bytes count as one byte of the line
ValidRuneOneByte(s, r, size, mt) ==
    LET s1 == [s EXCEPT !.Chars = IF mt.Chars THEN @ + 1 ELSE @]
        s2 == CountWord(s1, mt, IsSpace(r))
    IN IF AtNewline(mt, r)
       THEN EndLine(s2, mt)
       ELSE [s2 EXCEPT !.curLineBytes = IF mt.MaxLineBytes THEN @ + 1 ELSE @,
                       !.curLineChars = IF mt.MaxLineChars THEN @ + 1 ELSE @]

\* a decoded rune of the decoding path (lines 440-478)
ValidRune(s, r, size, mt) ==
    LET s1 == [s EXCEPT !.Chars = IF mt.Chars THEN @ + 1 ELSE @]
        s2 == CountWord(s1, mt, IsSpace(r))
    IN IF AtNewline(mt, r)
       THEN EndLine(s2, mt)
       ELSE [s2 EXCEPT !.curLineBytes = IF mt.MaxLineBytes THEN @ + size ELSE @,
                       !.curLineChars = IF mt.MaxLineChars THEN @ + 1 ELSE @]

\* the decoding loop runs while bytes remain (line 404)
DecodeMore(d) == Len(d) > 0

\* one iteration of the decoding loop: the new state and the bytes consumed
DecodeOne(s, d, mt) ==
    LET x == DecodeRune(d)
    IN IF x.r = RuneError /\ x.size = 1
       THEN [st |-> InvalidByte(s, d[1], mt), size |-> 1]
       ELSE [st |-> ValidRune(s, x.r, x.size, mt), size |-> x.size]

\* a mode chosen afresh for every chunk
ModeOfChunk(s, c, loc) ==
    /\ (loc.IsCOrPOSIX \/ loc.IsUTF8)
    /\ (loc.IsCOrPOSIX \/ \A k \in 1..Len(c) : c[k] < RuneSelf)

\* a switch that does not look at IsCOrPOSIX
ModeAfterAnyLocale(s, c, loc) ==
    IF s.asciiMode /\ (\E k \in 1..Len(c) : c[k] >= RuneSelf)
    THEN FALSE
    ELSE s.asciiMode

\* a switch that looks at the first byte of the chunk only
ModeAfterFirstByte(s, c, loc) ==
    IF s.asciiMode /\ ~loc.IsCOrPOSIX /\ Len(c) > 0 /\ c[1] >= RuneSelf
    THEN FALSE
    ELSE s.asciiMode

\* lines 353-362: the mode after looking at the chunk
ModeAfter(s, c, loc) ==
    IF s.asciiMode /\ ~loc.IsCOrPOSIX /\ (\E k \in 1..Len(c) : c[k] >= RuneSelf)
    THEN FALSE
    ELSE s.asciiMode

\* lines 482-488: what is left of data goes to carry
Stash(s, c, d) ==
    IF Len(c) > 0 /\ Len(d) > 0 THEN [s EXCEPT !.carry = @ \o d] ELSE s

\* a loop that returns a fresh result with the error
AfterReadDropCounts(s, err) ==
    IF err = "EOF" THEN [st |-> s, stop |-> TRUE]
    ELSE IF err # "nil"
         THEN [st |-> [s EXCEPT !.Lines = 0, !.Words = 0, !.Bytes = 0, !.Chars = 0, !.Err = err],
               stop |-> TRUE]
    ELSE [st |-> s, stop |-> FALSE]

\* lines 490-496: what the loop does with err
AfterRead(s, err) ==
    IF err = "EOF" THEN [st |-> s, stop |-> TRUE]
    ELSE IF err # "nil" THEN [st |-> [s EXCEPT !.Err = err], stop |-> TRUE]
    ELSE [st |-> s, stop |-> FALSE]

\* a return without the final comparison
FinalizeNothing(s, mt) == s

\* a finalisation that also counts the line in progress as a line
FinalizeCountsLine(s, mt) ==
    IF s.Err = "nil"
    THEN [s EXCEPT
            !.Lines = IF mt.Lines THEN @ + 1 ELSE @,
            !.MaxLineBytes = IF mt.MaxLineBytes /\ s.curLineBytes > @ THEN s.curLineBytes ELSE @,
            !.MaxLineChars = IF mt.MaxLineChars /\ s.curLineChars > @ THEN s.curLineChars ELSE @]
    ELSE s

\* lines 498-506
Finalize(s, mt) ==
    IF s.Err = "nil"
    THEN [s EXCEPT
            !.MaxLineBytes = IF mt.MaxLineBytes /\ s.curLineBytes > @ THEN s.curLineBytes ELSE @,
            !.MaxLineChars = IF mt.MaxLineChars /\ s.curLineChars > @ THEN s.curLineChars ELSE @]
    ELSE s

\* ---- the same loops, run to completion
RECURSIVE AsciiLoop(_, _, _, _)
AsciiLoop(s, c, k, mt) ==
    IF k > Len(c) THEN s ELSE AsciiLoop(AsciiByte(s, c[k], mt), c, k + 1, mt)

RECURSIVE DecodeLoop(_, _, _)
DecodeLoop(s, d, mt) ==
    IF ~DecodeMore(d) THEN [st |-> s, data |-> d]
    ELSE LET x == DecodeOne(s, d, mt)
         IN DecodeLoop(x.st, SubSeq(d, x.size + 1, Len(d)), mt)

\* lines 349-489 for one chunk; cont is the fast path's continue
ProcessChunk(s, c, mt, loc) ==
    LET s0 == [s EXCEPT !.Bytes = @ + Len(c), !.asciiMode = ModeAfter(s, c, loc)]
    IN IF s0.asciiMode
       THEN LET s1 == AsciiLoop(s0, c, 1, mt)
            IN [st |-> [s1 EXCEPT !.Chars = IF mt.Chars THEN @ + Len(c) ELSE @], cont |-> TRUE]
       ELSE LET x == DecodeLoop([s0 EXCEPT !.carry = <<>>], s0.carry \o c, mt)
            IN [st |-> Stash(x.st, c, x.data), cont |-> FALSE]

RECURSIVE ReadLoop(_, _, _, _, _)
ReadLoop(s, r, sr, mt, o) ==
    LET x == BufioRead(r, sr, o.BufferSize)
        c == ChunkOf(r, sr, x.n)
        y == IF x.n > 0 THEN ProcessChunk(s, c, mt, o.Locale) ELSE [st |-> s, cont |-> FALSE]
        z == AfterRead(y.st, x.err)
    IN IF y.cont THEN ReadLoop(y.st, x.rd, sr, mt, o)
       ELSE IF z.stop THEN z.st
       ELSE ReadLoop(z.st, x.rd, sr, mt, o)

\* the FileResult of CountReader (Index, Filename and Duration are set by main)
ResultOf(s) ==
    [Lines |-> s.Lines, Words |-> s.Words, Bytes |-> s.Bytes, Chars |-> s.Chars,
     MaxLineBytes |-> s.MaxLineBytes, MaxLineChars |-> s.MaxLineChars, Err |-> s.Err]

CountReader(sr, mt, o) ==
    ResultOf(Finalize(ReadLoop(InitState(o.Locale), NewReaderSize(o.BufferSize), sr, mt, o), mt))

CountBytes(b, mt, o) == CountReader(BytesSource(b), mt, o)

\* ------------------------------------------------------------------- idle
\* main's state while only CountReader runs, and the reverse
PoolIdle ==
    /\ startup = "none" /\ cfgJobs = 0 /\ inputs = <<>> /\ stdin = BytesSource(<<>>)
    /\ sent = 0 /\ closed = FALSE /\ wpc = <<>> /\ wjob = <<>> /\ wfr = <<>>
    /\ onceDone = FALSE /\ onceM = 0 /\ stdinData = <<>> /\ stdinErr = "nil"
    /\ stdinReads = 0 /\ mpc = "none" /\ received = 0 /\ pending = <<>> /\ next = 0
    /\ all = <<>> /\ exitCode = 0 /\ totals = <<>> /\ wg = 0 /\ printed = <<>>
    /\ arrivals = <<>>
    /\ status = -1

\* no function is being called
NoCall == [fn |-> "none"]
NoRet == [fn |-> "none"]
CallIdle == call = NoCall /\ ret = NoRet

ScanIdle ==
    /\ src = BytesSource(<<>>) /\ rd = NewReaderSize(0) /\ st = InitState(LocaleC)
    /\ chunk = <<>> /\ i = 1 /\ data = <<>> /\ rerr = "nil" /\ pc = "none"

\* ------------------------------------------------- CountReader, step by step
ScanInit ==
    /\ src \in Sources
    /\ m \in MetricsSet
    /\ opt \in [BufferSize : BufferSizes, Locale : Locales]
    /\ rd = NewReaderSize(opt.BufferSize)
    /\ st = InitState(opt.Locale)
    /\ chunk = <<>>
    /\ i = 1
    /\ data = <<>>
    /\ rerr = "nil"
    /\ pc = "read"
    /\ PoolIdle
    /\ CallIdle

\* n, err := r.Read(buf), and lines 349-363 and 402-403
Read ==
    /\ pc = "read"
    /\ LET x == BufioRead(rd, src, opt.BufferSize)
           c == ChunkOf(rd, src, x.n)
           am == ModeAfter(st, c, opt.Locale)
       IN /\ rd' = x.rd
          /\ rerr' = x.err
          /\ IF x.n > 0
             THEN /\ chunk' = c
                  /\ i' = 1
                  /\ IF am
                     THEN /\ st' = [st EXCEPT !.Bytes = @ + x.n, !.asciiMode = TRUE]
                          /\ data' = data
                          /\ pc' = "ascii"
                     ELSE /\ st' = [st EXCEPT !.Bytes = @ + x.n, !.asciiMode = FALSE,
                                              !.carry = <<>>]
                          /\ data' = st.carry \o c
                          /\ pc' = "decode"
             ELSE /\ UNCHANGED <<st, chunk, i, data>>
                  /\ pc' = "check"
    /\ UNCHANGED <<src, m, opt>>
    /\ UNCHANGED <<poolVars, callVars>>

AsciiStep ==
    /\ pc = "ascii"
    /\ i <= Len(chunk)
    /\ st' = AsciiByte(st, chunk[i], m)
    /\ i' = i + 1
    /\ UNCHANGED <<src, m, opt, rd, chunk, data, rerr, pc>>
    /\ UNCHANGED <<poolVars, callVars>>

\* lines 393-397: Chars += n; continue
AsciiEnd ==
    /\ pc = "ascii"
    /\ i > Len(chunk)
    /\ st' = [st EXCEPT !.Chars = IF m.Chars THEN @ + Len(chunk) ELSE @]
    /\ pc' = "read"
    /\ UNCHANGED <<src, m, opt, rd, chunk, i, data, rerr>>
    /\ UNCHANGED <<poolVars, callVars>>

DecodeStep ==
    /\ pc = "decode"
    /\ DecodeMore(data)
    /\ LET x == DecodeOne(st, data, m)
       IN /\ st' = x.st
          /\ data' = SubSeq(data, x.size + 1, Len(data))
    /\ UNCHANGED <<src, m, opt, rd, chunk, i, rerr, pc>>
    /\ UNCHANGED <<poolVars, callVars>>

DecodeEnd ==
    /\ pc = "decode"
    /\ ~DecodeMore(data)
    /\ st' = Stash(st, chunk, data)
    /\ pc' = "check"
    /\ UNCHANGED <<src, m, opt, rd, chunk, i, data, rerr>>
    /\ UNCHANGED <<poolVars, callVars>>

CheckErr ==
    /\ pc = "check"
    /\ LET z == AfterRead(st, rerr)
       IN /\ st' = z.st
          /\ pc' = IF z.stop THEN "final" ELSE "read"
    /\ UNCHANGED <<src, m, opt, rd, chunk, i, data, rerr>>
    /\ UNCHANGED <<poolVars, callVars>>

Return ==
    /\ pc = "final"
    /\ st' = Finalize(st, m)
    /\ pc' = "done"
    /\ UNCHANGED <<src, m, opt, rd, chunk, i, data, rerr>>
    /\ UNCHANGED <<poolVars, callVars>>

ScanNext == Read \/ AsciiStep \/ AsciiEnd \/ DecodeStep \/ DecodeEnd \/ CheckErr \/ Return

ScanSpec == ScanInit /\ [][ScanNext]_vars

\* CountReader with every buffer size that Options can carry, 0 included, and
\* its steps taken for as long as there is one to take
AnyBufferSizes == BufferSizes \cup {0}

ScanAnySizeInit ==
    /\ src \in Sources
    /\ m \in {[Lines |-> TRUE, Words |-> TRUE, Bytes |-> TRUE, Chars |-> FALSE,
                MaxLineBytes |-> FALSE, MaxLineChars |-> FALSE],
               [Lines |-> TRUE, Words |-> TRUE, Bytes |-> TRUE, Chars |-> TRUE,
                MaxLineBytes |-> TRUE, MaxLineChars |-> TRUE]}
    /\ opt \in [BufferSize : AnyBufferSizes, Locale : Locales]
    /\ rd = NewReaderSize(opt.BufferSize)
    /\ st = InitState(opt.Locale)
    /\ chunk = <<>>
    /\ i = 1
    /\ data = <<>>
    /\ rerr = "nil"
    /\ pc = "read"
    /\ PoolIdle
    /\ CallIdle

ScanFairSpec == ScanAnySizeInit /\ [][ScanNext]_vars /\ WF_vars(ScanNext)

\* the machine and the run-to-completion operators are the same function
ScanAgrees == pc = "done" => ResultOf(st) = CountReader(src, m, opt)

\* ------------------------------------------------------------------- main
StdinName == "-"

\* the names an input list is drawn from: standard input, a readable file, a
\* file whose read fails after three bytes, a file that cannot be opened
Names == {StdinName, "f", "g", "x"}

\* os.Open and the file's bytes: "a b\n"; "a\n" then 0xC2 and a read error
OpenFile(name) ==
    CASE name = "f" -> [ok |-> TRUE, src |-> [data |-> <<97, 32, 98, 10>>, term |-> "EOF", eager |-> FALSE]]
      [] name = "g" -> [ok |-> TRUE, src |-> [data |-> <<97, 10, 194>>, term |-> "err", eager |-> FALSE]]
      [] OTHER      -> [ok |-> FALSE, src |-> BytesSource(<<>>)]

\* what standard input may hold: U+00A0 "a\n" read to the end, or "a\n" and
\* then a read error
StdinSources ==
    { [data |-> <<194, 160, 97, 10>>, term |-> "EOF", eager |-> FALSE],
      [data |-> <<97, 10>>, term |-> "err", eager |-> FALSE] }

DefaultMetrics ==
    [Lines |-> TRUE, Words |-> TRUE, Bytes |-> TRUE, Chars |-> FALSE,
     MaxLineBytes |-> FALSE, MaxLineChars |-> FALSE]

AllMetrics ==
    [Lines |-> TRUE, Words |-> TRUE, Bytes |-> TRUE, Chars |-> TRUE,
     MaxLineBytes |-> TRUE, MaxLineChars |-> TRUE]

\* the zero FileResult
ZeroResult ==
    [Index |-> 0, Filename |-> "", Lines |-> 0, Words |-> 0, Bytes |-> 0, Chars |-> 0,
     MaxLineBytes |-> 0, MaxLineChars |-> 0, Err |-> "nil"]

\* a result for an error that does not say whose it is
ErrResultUnnamed(name, e) == [ZeroResult EXCEPT !.Err = e]

\* FileResult{Filename: name, Err: e}
ErrResult(name, e) == [ZeroResult EXCEPT !.Filename = name, !.Err = e]

\* fr = wc.CountReader(...) / wc.CountBytes(...); fr.Filename = j.name
Named(r, name) ==
    [ZeroResult EXCEPT !.Filename = name, !.Lines = r.Lines, !.Words = r.Words,
                       !.Bytes = r.Bytes, !.Chars = r.Chars,
                       !.MaxLineBytes = r.MaxLineBytes, !.MaxLineChars = r.MaxLineChars,
                       !.Err = r.Err]

\* io.ReadAll(bufio.NewReaderSize(os.Stdin, ...))
ReadAll(s) == [data |-> s.data, err |-> IF s.term = "EOF" THEN "nil" ELSE s.term]

\* standard input once it has been read to its end
Drained(s) == [s EXCEPT !.data = <<>>]

\* an exit code that follows the last result only
ExitCodeOfLast(code, res) == IF res.Err # "nil" THEN 1 ELSE 0

\* lines 313-315
ExitCodeAfter(code, res) == IF res.Err # "nil" THEN 1 ELSE code

\* lines 272-277: the result of a "-" job from what the one read left
StdinResult(name, sdata, serr, mt, o) ==
    IF serr # "nil" THEN ErrResult(name, serr) ELSE Named(CountBytes(sdata, mt, o), name)

\* lines 279-286: the result of a named file
FileJob(name, mt, o) ==
    LET f == OpenFile(name)
    IN IF ~f.ok THEN ErrResult(name, "open") ELSE Named(CountReader(f.src, mt, o), name)

\* as many workers as asked for, be it none
WorkerCountAsGiven(jobs) == jobs

\* lines 254-257
WorkerCount(jobs) == IF jobs < 1 THEN 1 ELSE jobs

\* an input list taken as it is, be it empty
InputsAsGiven(files) == files

\* lines 238-240
InputsOrStdin(files) == IF Len(files) = 0 THEN <<StdinName>> ELSE files

Workers == DOMAIN wpc

N == Len(inputs)

\* a producer that numbers every job 0
JobZero(k) == [idx |-> 0, name |-> inputs[k + 1]]

\* line 300: job{idx: i, name: name} for the i-th input, i counted from 0
JobAt(k) == [idx |-> k, name |-> inputs[k + 1]]

\* a release loop that stops after one result
DrainOne(p, nx, al) ==
    IF nx \in DOMAIN p
    THEN [pending |-> [k \in (DOMAIN p) \ {nx} |-> p[k]], next |-> nx + 1,
          all |-> Append(al, p[nx])]
    ELSE [pending |-> p, next |-> nx, all |-> al]

\* lines 317-325: release what is next, as long as it is there
RECURSIVE Drain(_, _, _)
Drain(p, nx, al) ==
    IF nx \in DOMAIN p
    THEN Drain([k \in (DOMAIN p) \ {nx} |-> p[k]], nx + 1, Append(al, p[nx]))
    ELSE [pending |-> p, next |-> nx, all |-> al]

\* a collector that releases every result as it arrives
CollectOnArrival(p, nx, al, res) == [pending |-> p, next |-> nx + 1, all |-> Append(al, res)]

\* lines 316-325: one received result
Collect(p, nx, al, res) ==
    Drain([k \in (DOMAIN p) \cup {res.Index} |-> IF k = res.Index THEN res ELSE p[k]], nx, al)

\* totals that take in every result, failed or not
RECURSIVE TotalsOfAll(_, _, _)
TotalsOfAll(al, k, tot) ==
    IF k > Len(al) THEN tot
    ELSE LET r == al[k]
         IN TotalsOfAll(al, k + 1,
                [tot EXCEPT !.Lines = @ + r.Lines, !.Words = @ + r.Words,
                            !.Bytes = @ + r.Bytes, !.Chars = @ + r.Chars,
                            !.MaxLineBytes = IF r.MaxLineBytes > @ THEN r.MaxLineBytes ELSE @,
                            !.MaxLineChars = IF r.MaxLineChars > @ THEN r.MaxLineChars ELSE @])

\* lines 330-345
RECURSIVE Totals(_, _, _)
Totals(al, k, tot) ==
    IF k > Len(al) THEN tot
    ELSE LET r == al[k]
         IN Totals(al, k + 1,
                IF r.Err = "nil"
                THEN [tot EXCEPT !.Lines = @ + r.Lines, !.Words = @ + r.Words,
                                 !.Bytes = @ + r.Bytes, !.Chars = @ + r.Chars,
                                 !.MaxLineBytes = IF r.MaxLineBytes > @ THEN r.MaxLineBytes ELSE @,
                                 !.MaxLineChars = IF r.MaxLineChars > @ THEN r.MaxLineChars ELSE @]
                ELSE tot)

\* lines 351-361: what goes to stdout
RECURSIVE Stdout(_, _)
Stdout(al, k) ==
    IF k > Len(al) THEN <<>>
    ELSE (IF al[k].Err = "nil" THEN <<al[k]>> ELSE <<>>) \o Stdout(al, k + 1)

\* ---- where each step of main and of a worker can be taken
\* option handling ends the run
CanExitEarly == mpc = "start" /\ startup # "run"

CanStartPool == mpc = "start" /\ startup = "run"

\* the producer's send meets the receive of a worker waiting on jobs
CanTakeJob(w) == wpc[w] = "recv" /\ sent < N

\* a producer that never closes the queue
NeverClosed == FALSE

\* the producer has sent every job
CanCloseJobs == mpc \notin {"start", "exited"} /\ sent = N /\ ~closed

\* a receive on the closed, drained channel
CanWorkerExit(w) == wpc[w] = "recv" /\ closed

\* a gate without mutual exclusion
MutexIgnored(w) == TRUE

\* the Once's mutex is free for w to take
MutexFree(w) == onceM = 0

CanOnceLock(w) == wpc[w] = "lock" /\ MutexFree(w)

\* a worker's send meets main's receive in the collection loop
CanDeliver(w) == wpc[w] = "send" /\ mpc = "collect" /\ received < N

CanCollectDone == mpc = "collect" /\ received = N

\* wg.Wait() returns
CanFinish == mpc = "wait" /\ wg = 0

\* the steps a worker takes on its own
Running(w) == wpc[w] \in {"file", "once", "reading", "use"}

\* some step of main, the producer or a worker can be taken
CanStep ==
    \/ CanExitEarly \/ CanStartPool \/ CanCloseJobs \/ CanCollectDone \/ CanFinish
    \/ \E w \in Workers :
          \/ CanTakeJob(w) \/ CanWorkerExit(w) \/ CanOnceLock(w) \/ CanDeliver(w)
          \/ Running(w)

PoolInit ==
    /\ ScanIdle
    /\ CallIdle
    /\ m \in {DefaultMetrics, AllMetrics}
    /\ opt \in [BufferSize : {1, MinReadBufferSize}, Locale : {LocaleUTF8}]
    /\ startup \in {"run", "help", "version", "badflag", "badlist"}
    /\ cfgJobs \in -1..MaxJobs
    /\ inputs \in SeqsUpTo(Names, MaxInputs)
    /\ stdin \in StdinSources
    /\ sent = 0 /\ closed = FALSE /\ wpc = <<>> /\ wjob = <<>> /\ wfr = <<>>
    /\ onceDone = FALSE /\ onceM = 0 /\ stdinData = <<>> /\ stdinErr = "nil"
    /\ stdinReads = 0 /\ mpc = "start" /\ received = 0 /\ pending = <<>> /\ next = 0
    /\ all = <<>> /\ exitCode = 0 /\ totals = ZeroResult /\ wg = 0 /\ printed = <<>>
    /\ arrivals = <<>>
    /\ status = -1

\* lines 197-210 and 230-235: the runs that end before any input is counted
EarlyExit ==
    /\ CanExitEarly
    /\ mpc' = "exited"
    /\ status' = IF startup \in {"badflag", "badlist"} THEN 1 ELSE 0
    /\ UNCHANGED <<scanVars, callVars, confVars, arrivals, startup, cfgJobs, inputs, stdin, sent, closed, wpc, wjob,
                   wfr, onceDone, onceM, stdinData, stdinErr, stdinReads, received, pending,
                   next, all, exitCode, totals, wg, printed>>

\* lines 238-303: the input list, the workers and the producer are set up
StartPool ==
    /\ CanStartPool
    /\ inputs' = InputsOrStdin(inputs)
    /\ wpc' = [w \in 1..WorkerCount(cfgJobs) |-> "recv"]
    /\ wjob' = [w \in 1..WorkerCount(cfgJobs) |-> [idx |-> 0, name |-> ""]]
    /\ wfr' = [w \in 1..WorkerCount(cfgJobs) |-> ZeroResult]
    /\ wg' = WorkerCount(cfgJobs)
    /\ mpc' = "collect"
    /\ UNCHANGED <<scanVars, callVars, confVars, arrivals, startup, cfgJobs, stdin, sent, closed, onceDone, onceM,
                   stdinData, stdinErr, stdinReads, received, pending, next, all, exitCode,
                   totals, printed, status>>

\* jobs <- job{idx: i, name: name} meets a worker's receive
TakeJob(w) ==
    /\ CanTakeJob(w)
    /\ wjob' = [wjob EXCEPT ![w] = JobAt(sent)]
    /\ sent' = sent + 1
    /\ wpc' = [wpc EXCEPT ![w] = IF inputs[sent + 1] = StdinName THEN "once" ELSE "file"]
    /\ UNCHANGED <<scanVars, callVars, confVars, arrivals, startup, cfgJobs, inputs, stdin, closed, wfr, onceDone,
                   onceM, stdinData, stdinErr, stdinReads, mpc, received, pending, next, all,
                   exitCode, totals, wg, printed, status>>

\* close(jobs)
CloseJobs ==
    /\ CanCloseJobs
    /\ closed' = TRUE
    /\ UNCHANGED <<scanVars, callVars, confVars, arrivals, startup, cfgJobs, inputs, stdin, sent, wpc, wjob, wfr,
                   onceDone, onceM, stdinData, stdinErr, stdinReads, mpc, received, pending,
                   next, all, exitCode, totals, wg, printed, status>>

\* the range over jobs ends; the deferred wg.Done()
WorkerExit(w) ==
    /\ CanWorkerExit(w)
    /\ wpc' = [wpc EXCEPT ![w] = "exit"]
    /\ wg' = wg - 1
    /\ UNCHANGED <<scanVars, callVars, confVars, arrivals, startup, cfgJobs, inputs, stdin, sent, closed, wjob, wfr,
                   onceDone, onceM, stdinData, stdinErr, stdinReads, mpc, received, pending,
                   next, all, exitCode, totals, printed, status>>

\* lines 279-289: a named file
CountFile(w) ==
    /\ wpc[w] = "file"
    /\ wfr' = [wfr EXCEPT ![w] = [FileJob(wjob[w].name, m, opt) EXCEPT !.Index = wjob[w].idx]]
    /\ wpc' = [wpc EXCEPT ![w] = "send"]
    /\ UNCHANGED <<scanVars, callVars, confVars, arrivals, startup, cfgJobs, inputs, stdin, sent, closed, wjob,
                   onceDone, onceM, stdinData, stdinErr, stdinReads, mpc, received, pending,
                   next, all, exitCode, totals, wg, printed, status>>

\* sync.Once.Do: the fast path, which looks at done without the mutex
OnceDo(w) ==
    /\ wpc[w] = "once"
    /\ wpc' = [wpc EXCEPT ![w] = IF onceDone THEN "use" ELSE "lock"]
    /\ UNCHANGED <<scanVars, callVars, confVars, arrivals, startup, cfgJobs, inputs, stdin, sent, closed, wjob, wfr,
                   onceDone, onceM, stdinData, stdinErr, stdinReads, mpc, received, pending,
                   next, all, exitCode, totals, wg, printed, status>>

\* sync.Once.doSlow: lock, look at done again, start f
OnceLock(w) ==
    /\ CanOnceLock(w)
    /\ IF onceDone
       THEN /\ wpc' = [wpc EXCEPT ![w] = "use"]
            /\ UNCHANGED <<onceM, stdinReads>>
       ELSE /\ wpc' = [wpc EXCEPT ![w] = "reading"]
            /\ onceM' = w
            /\ stdinReads' = stdinReads + 1
    /\ UNCHANGED <<scanVars, callVars, confVars, arrivals, startup, cfgJobs, inputs, stdin, sent, closed, wjob, wfr,
                   onceDone, stdinData, stdinErr, mpc, received, pending, next, all, exitCode,
                   totals, wg, printed, status>>

\* f returns: stdinData, stdinErr are set, done is stored, the mutex released
OnceReturn(w) ==
    /\ wpc[w] = "reading"
    /\ stdinData' = ReadAll(stdin).data
    /\ stdinErr' = ReadAll(stdin).err
    /\ stdin' = Drained(stdin)
    /\ onceDone' = TRUE
    /\ onceM' = 0
    /\ wpc' = [wpc EXCEPT ![w] = "use"]
    /\ UNCHANGED <<scanVars, callVars, confVars, arrivals, startup, cfgJobs, inputs, sent, closed, wjob, wfr,
                   stdinReads, mpc, received, pending, next, all, exitCode, totals, wg, printed,
                   status>>

\* lines 272-277 and 288-289
UseStdin(w) ==
    /\ wpc[w] = "use"
    /\ wfr' = [wfr EXCEPT ![w] =
                  [StdinResult(wjob[w].name, stdinData, stdinErr, m, opt)
                      EXCEPT !.Index = wjob[w].idx]]
    /\ wpc' = [wpc EXCEPT ![w] = "send"]
    /\ UNCHANGED <<scanVars, callVars, confVars, arrivals, startup, cfgJobs, inputs, stdin, sent, closed, wjob,
                   onceDone, onceM, stdinData, stdinErr, stdinReads, mpc, received, pending,
                   next, all, exitCode, totals, wg, printed, status>>

\* results <- fr meets res := <-results; lines 312-325
Deliver(w) ==
    /\ CanDeliver(w)
    /\ LET res == wfr[w]
           c == Collect(pending, next, all, res)
       IN /\ exitCode' = ExitCodeAfter(exitCode, res)
          /\ pending' = c.pending
          /\ next' = c.next
          /\ all' = c.all
    /\ received' = received + 1
    /\ arrivals' = Append(arrivals, wfr[w].Index)
    /\ wpc' = [wpc EXCEPT ![w] = "recv"]
    /\ UNCHANGED <<scanVars, callVars, confVars, startup, cfgJobs, inputs, stdin, sent, closed, wjob, wfr,
                   onceDone, onceM, stdinData, stdinErr, stdinReads, mpc, totals, wg, printed,
                   status>>

\* the collection loop has run once per input: main goes on to wg.Wait()
CollectDone ==
    /\ CanCollectDone
    /\ mpc' = "wait"
    /\ UNCHANGED <<scanVars, callVars, confVars, arrivals, startup, cfgJobs, inputs, stdin, sent, closed, wpc, wjob,
                   wfr, onceDone, onceM, stdinData, stdinErr, stdinReads, received, pending,
                   next, all, exitCode, totals, wg, printed, status>>

\* wg.Wait() returns; totals, output, os.Exit(exitCode) (lines 327-363)
Finish ==
    /\ CanFinish
    /\ totals' = Totals(all, 1, ZeroResult)
    /\ printed' = Stdout(all, 1) \o
                  (IF N > 1 THEN <<[Totals(all, 1, ZeroResult) EXCEPT !.Filename = "total"]>>
                   ELSE <<>>)
    /\ status' = exitCode
    /\ mpc' = "exited"
    /\ UNCHANGED <<scanVars, callVars, confVars, arrivals, startup, cfgJobs, inputs, stdin, sent, closed, wpc, wjob,
                   wfr, onceDone, onceM, stdinData, stdinErr, stdinReads, received, pending,
                   next, all, exitCode, wg>>

PoolNext ==
    \/ EarlyExit
    \/ StartPool
    \/ CloseJobs
    \/ CollectDone
    \/ Finish
    \/ \E w \in Workers : TakeJob(w)
    \/ \E w \in Workers : WorkerExit(w)
    \/ \E w \in Workers : CountFile(w)
    \/ \E w \in Workers : OnceDo(w)
    \/ \E w \in Workers : OnceLock(w)
    \/ \E w \in Workers : OnceReturn(w)
    \/ \E w \in Workers : UseStdin(w)
    \/ \E w \in Workers : Deliver(w)

PoolSpec == PoolInit /\ [][PoolNext]_vars

PoolDone == mpc = "exited"

\* ---- scheduling: a goroutine that can take a step is not left waiting for ever
\* the steps of main, of the producer and of the workers other than counting
Handoffs ==
    \/ EarlyExit \/ StartPool \/ CloseJobs \/ CollectDone \/ Finish
    \/ \E w \in Workers :
          \/ TakeJob(w) \/ WorkerExit(w) \/ OnceDo(w) \/ OnceLock(w) \/ OnceReturn(w)
          \/ Deliver(w)

\* a worker counts the input it has in hand
Counting == \E w \in Workers : CountFile(w) \/ UseStdin(w)

\* where Counting can be taken
CanCount == \E w \in Workers : wpc[w] \in {"file", "use"}

\* PoolSpec under weak fairness of Handoffs and of Counting; that of Counting
\* is written out with CanCount for ENABLED <<Counting>>_vars
PoolFairSpec ==
    /\ PoolSpec
    /\ WF_vars(Handoffs)
    /\ ([]<>(~CanCount) \/ []<><<Counting>>_vars)

\* ------------------------------------------------------- strings, as Go has them
\* a string is the sequence of its characters
Digits == <<"0", "1", "2", "3", "4", "5", "6", "7", "8", "9">>
UpperLetters == <<"A", "B", "C", "D", "E", "F", "G", "H", "I", "J", "K", "L", "M",
                  "N", "O", "P", "Q", "R", "S", "T", "U", "V", "W", "X", "Y", "Z">>
LowerLetters == <<"a", "b", "c", "d", "e", "f", "g", "h", "i", "j", "k", "l", "m",
                  "n", "o", "p", "q", "r", "s", "t", "u", "v", "w", "x", "y", "z">>
SpaceChars == {" ", "\t", "\n", "\r"}

\* strconv.FormatUint(v, 10)
RECURSIVE FormatUint(_)
FormatUint(v) ==
    IF v < 10 THEN <<Digits[v + 1]>>
    ELSE FormatUint(v \div 10) \o <<Digits[(v % 10) + 1]>>

\* strings.ToLower
ToLower(s) ==
    [k \in 1..Len(s) |->
        IF \E j \in 1..Len(UpperLetters) : UpperLetters[j] = s[k]
        THEN LowerLetters[CHOOSE j \in 1..Len(UpperLetters) : UpperLetters[j] = s[k]]
        ELSE s[k]]

\* strings.TrimSpace
RECURSIVE TrimSpace(_)
TrimSpace(s) ==
    IF Len(s) = 0 THEN s
    ELSE IF s[1] \in SpaceChars THEN TrimSpace(Tail(s))
    ELSE IF s[Len(s)] \in SpaceChars THEN TrimSpace(SubSeq(s, 1, Len(s) - 1))
    ELSE s

HasPrefix(s, pre) == Len(s) >= Len(pre) /\ SubSeq(s, 1, Len(pre)) = pre

\* strings.ReplaceAll(s, old, new), old not empty
RECURSIVE ReplaceAll(_, _, _)
ReplaceAll(s, old, new) ==
    IF Len(s) = 0 THEN s
    ELSE IF HasPrefix(s, old)
         THEN new \o ReplaceAll(SubSeq(s, Len(old) + 1, Len(s)), old, new)
    ELSE <<s[1]>> \o ReplaceAll(Tail(s), old, new)

\* strings.IndexByte(s, c), counted from 0; -1 when c is not in s
IndexByte(s, c) ==
    IF \E k \in 1..Len(s) : s[k] = c
    THEN (CHOOSE k \in 1..Len(s) : s[k] = c /\ \A j \in 1..(k - 1) : s[j] # c) - 1
    ELSE -1

\* ------------------------------------------------------------ locale.go
\* a choice of the last value that is not empty
lastNonEmpty(ss) ==
    IF \E k \in 1..Len(ss) : ss[k] # <<>>
    THEN ss[CHOOSE k \in 1..Len(ss) : ss[k] # <<>> /\ \A j \in (k + 1)..Len(ss) : ss[j] = <<>>]
    ELSE <<>>

firstNonEmpty(ss) ==
    IF \E k \in 1..Len(ss) : ss[k] # <<>>
    THEN ss[CHOOSE k \in 1..Len(ss) : ss[k] # <<>> /\ \A j \in 1..(k - 1) : ss[j] = <<>>]
    ELSE <<>>

normalizeEncoding(s) ==
    LET s1 == TrimSpace(ToLower(s))
        s2 == ReplaceAll(s1, <<"_">>, <<"-">>)
        s3 == ReplaceAll(s2, <<"c", "h", "a", "r", "s", "e", "t", "=">>, <<>>)
        s4 == ReplaceAll(s3, <<"c", "s">>, <<>>)
    IN IF s4 = <<"u", "t", "f", "8">> THEN <<"u", "t", "f", "-", "8">>
       ELSE IF s4 = <<"c">> THEN <<"C">>
       ELSE IF s4 = <<"p", "o", "s", "i", "x">> THEN <<"P", "O", "S", "I", "X">>
       ELSE s4

\* Detect(override) in an environment env = [LC_ALL, LC_CTYPE, LANG]
Detect(override, env) ==
    IF override # <<>>
    THEN LET enc == normalizeEncoding(override)
         IN [Encoding |-> enc, IsUTF8 |-> enc = <<"u", "t", "f", "-", "8">>,
             IsCOrPOSIX |-> (enc = <<"C">> \/ enc = <<"P", "O", "S", "I", "X">>)]
    ELSE LET val == firstNonEmpty(<<env.LC_ALL, env.LC_CTYPE, env.LANG>>)
         IN IF val = <<>> THEN [Encoding |-> <<"u", "t", "f", "-", "8">>, IsUTF8 |-> TRUE, IsCOrPOSIX |-> FALSE]
            ELSE IF val = <<"C">> \/ val = <<"P", "O", "S", "I", "X">>
                 THEN [Encoding |-> <<"C">>, IsUTF8 |-> FALSE, IsCOrPOSIX |-> TRUE]
            ELSE LET k == IndexByte(val, ".")
                     enc0 == IF k >= 0 /\ k + 1 < Len(val)
                             THEN SubSeq(val, k + 2, Len(val)) ELSE <<"u", "t", "f", "-", "8">>
                     enc == normalizeEncoding(enc0)
                 IN [Encoding |-> enc, IsUTF8 |-> enc = <<"u", "t", "f", "-", "8">>, IsCOrPOSIX |-> FALSE]

\* --------------------------------------------------------------- format.go
MinWidth == 7

\* the metrics in the order of the columns
Columns == <<"Lines", "Words", "Chars", "Bytes", "MaxLineBytes", "MaxLineChars">>

\* lines 14-19 and 21-26: the largest selected value of row, or mx if larger
RECURSIVE MaxSelected(_, _, _, _)
MaxSelected(row, mt, k, mx) ==
    IF k > Len(Columns) THEN mx
    ELSE MaxSelected(row, mt, k + 1,
             IF mt[Columns[k]] /\ row[Columns[k]] > mx THEN row[Columns[k]] ELSE mx)

\* lines 12-20
RECURSIVE MaxOfResults(_, _, _, _)
MaxOfResults(rs, mt, k, mx) ==
    IF k > Len(rs) THEN mx
    ELSE MaxOfResults(rs, mt, k + 1,
             IF rs[k].Err # "nil" THEN mx ELSE MaxSelected(rs[k], mt, 1, mx))

\* a width that also looks at the rs that carry an error
ComputeWidthOfAll(rs, tot, mt) ==
    LET all1 == [k \in 1..Len(rs) |-> [rs[k] EXCEPT !.Err = "nil"]]
        mx == MaxSelected(tot, mt, 1, MaxOfResults(all1, mt, 1, 0))
        w == Len(FormatUint(mx))
    IN IF w < MinWidth THEN MinWidth ELSE w

ComputeWidth(rs, tot, mt) ==
    LET mx == MaxSelected(tot, mt, 1, MaxOfResults(rs, mt, 1, 0))
        w == Len(FormatUint(mx))
    IN IF w < MinWidth THEN MinWidth ELSE w

RECURSIVE padRight(_, _)
padRight(s, width) == IF Len(s) < width THEN padRight(<<" ">> \o s, width) ELSE s

RECURSIVE join(_)
join(parts) ==
    IF Len(parts) = 0 THEN <<>>
    ELSE IF Len(parts) = 1 THEN parts[1]
    ELSE join(SubSeq(parts, 1, Len(parts) - 1)) \o <<" ">> \o parts[Len(parts)]

\* lines 36-41: the padded numbers of the selected metrics from column k on
RECURSIVE NumberParts(_, _, _, _)
NumberParts(row, mt, width, k) ==
    IF k > Len(Columns) THEN <<>>
    ELSE (IF mt[Columns[k]] THEN <<padRight(FormatUint(row[Columns[k]]), width)>> ELSE <<>>)
             \o NumberParts(row, mt, width, k + 1)

\* a line with bytes before chars
FormatLineBytesFirst(row, mt, width) ==
    LET num(f) == IF mt[f] THEN <<padRight(FormatUint(row[f]), width)>> ELSE <<>>
    IN join(num("Lines") \o num("Words") \o num("Bytes") \o num("Chars")
                \o num("MaxLineBytes") \o num("MaxLineChars")
                \o (IF row.Filename # <<>> THEN <<row.Filename>> ELSE <<>>))

FormatLine(row, mt, width) ==
    join(NumberParts(row, mt, width, 1) \o (IF row.Filename # <<>> THEN <<row.Filename>> ELSE <<>>))

\* ------------------------------------------------- main: option handling
MetricFlags == {"-c", "--bytes", "-m", "--chars", "-l", "--lines", "-w", "--words",
                "-L", "--max-line-length", "--max-line-length-chars"}

\* cliConfig as it is before the arguments are looked at
NoFlags ==
    [countBytes |-> FALSE, countChars |-> FALSE, countLines |-> FALSE, countWords |-> FALSE,
     countMaxBytes |-> FALSE, countMaxChars |-> FALSE, jobs |-> 0]

\* lines 151-161 and 165: what one argument sets
SetFlag(cfg, a) ==
    CASE a \in {"-c", "--bytes"} -> [cfg EXCEPT !.countBytes = TRUE]
      [] a \in {"-m", "--chars"} -> [cfg EXCEPT !.countChars = TRUE]
      [] a \in {"-l", "--lines"} -> [cfg EXCEPT !.countLines = TRUE]
      [] a \in {"-w", "--words"} -> [cfg EXCEPT !.countWords = TRUE]
      [] a \in {"-L", "--max-line-length"} -> [cfg EXCEPT !.countMaxBytes = TRUE]
      [] a = "--max-line-length-chars" -> [cfg EXCEPT !.countMaxChars = TRUE]
      [] a = "--jobs=1" -> [cfg EXCEPT !.jobs = 1]
      [] OTHER -> cfg

\* arguments that are no flags: fs.Parse stops at the first of them
Operands == {"f", "-"}

RECURSIVE parseArgs(_, _, _)
parseArgs(args, k, cfg) ==
    IF k > Len(args) \/ args[k] \in Operands THEN cfg
    ELSE parseArgs(args, k + 1, SetFlag(cfg, args[k]))

\* metrics that are the flags and nothing else, also when there is none
SelectMetricsAsGiven(cfg) ==
    [Lines |-> cfg.countLines, Words |-> cfg.countWords, Bytes |-> cfg.countBytes,
     Chars |-> cfg.countChars, MaxLineBytes |-> cfg.countMaxBytes,
     MaxLineChars |-> cfg.countMaxChars]

\* main, lines 212-225
SelectMetrics(cfg) ==
    IF ~(cfg.countBytes \/ cfg.countChars \/ cfg.countLines \/ cfg.countWords
            \/ cfg.countMaxBytes \/ cfg.countMaxChars)
    THEN DefaultMetrics
    ELSE [Lines |-> cfg.countLines, Words |-> cfg.countWords, Bytes |-> cfg.countBytes,
          Chars |-> cfg.countChars, MaxLineBytes |-> cfg.countMaxBytes,
          MaxLineChars |-> cfg.countMaxChars]

\* ------------------------------------------------- main: readFiles0From
\* the byte 0 that ends a name of the list
NUL == "NUL"

\* strings.Split(s, sep) for a separator of one byte
RECURSIVE Split(_, _)
Split(s, sep) ==
    LET k == IndexByte(s, sep)
    IN IF k < 0 THEN <<s>>
       ELSE <<SubSeq(s, 1, k)>> \o Split(SubSeq(s, k + 2, Len(s)), sep)

\* a loop that keeps the empty parts too
KeepParts(parts, k) == SubSeq(parts, k, Len(parts))

\* lines 383-389: the parts from the k-th on that are not empty
RECURSIVE NonEmptyParts(_, _)
NonEmptyParts(parts, k) ==
    IF k > Len(parts) THEN <<>>
    ELSE (IF parts[k] = <<>> THEN <<>> ELSE <<parts[k]>>) \o NonEmptyParts(parts, k + 1)

\* readFiles0From on a list file: whether it opens, its bytes, how its read ends
readFiles0From(f) ==
    IF ~f.ok THEN [names |-> <<>>, err |-> "open"]
    ELSE IF f.term # "EOF" THEN [names |-> <<>>, err |-> f.term]
    ELSE [names |-> NonEmptyParts(Split(f.data, NUL), 1), err |-> "nil"]

\* ------------------------------------------------------- one call at a time
MaxList == 4
MaxReads == 4

\* list files: every content of up to MaxList bytes over NUL, "a" and "b"
ListFiles ==
    {[ok |-> o, term |-> tm, data |-> d] :
        o \in BOOLEAN, tm \in {"EOF", "err"}, d \in SeqsUpTo({NUL, "a", "b"}, MaxList)}

\* len(p) of a call of Read
ReadSizes == {0} \cup BufferSizes

MaxArgs == 2
MaxRows == 2

\* "", "C", "POSIX", "en_US.UTF-8", "de_DE.ISO-8859-1", "en_US", "utf8"
LocaleNames ==
    { <<>>, <<"C">>, <<"P", "O", "S", "I", "X">>, <<"e", "n", "_", "U", "S", ".", "U", "T", "F", "-", "8">>, <<"d", "e", "_", "D", "E", ".", "I", "S", "O", "-", "8", "8", "5", "9", "-", "1">>, <<"e", "n", "_", "U", "S">>, <<"u", "t", "f", "8">> }

\* FileResults to print: small counts; counts of eight digits and more; a
\* result with an error and counts of ten digits; the zero result
Rows ==
    { [Filename |-> <<"f">>, Lines |-> 1, Words |-> 2, Chars |-> 11, Bytes |-> 12,
       MaxLineBytes |-> 5, MaxLineChars |-> 4, Err |-> "nil"],
      [Filename |-> <<>>, Lines |-> 3, Words |-> 10000000, Chars |-> 9999999,
       Bytes |-> 123456789, MaxLineBytes |-> 0, MaxLineChars |-> 6, Err |-> "nil"],
      [Filename |-> <<"g">>, Lines |-> 7, Words |-> 8, Chars |-> 9, Bytes |-> 1234567890,
       MaxLineBytes |-> 1234567890, MaxLineChars |-> 9, Err |-> "open"],
      [Filename |-> <<"t", "o", "t", "a", "l">>, Lines |-> 0, Words |-> 0, Chars |-> 0, Bytes |-> 0,
       MaxLineBytes |-> 0, MaxLineChars |-> 0, Err |-> "nil"] }

Widths == {1, MinWidth, 10}

Calls ==
    {[fn |-> "SelectMetrics", args |-> a] :
        a \in SeqsUpTo(MetricFlags \cup {"--jobs=1"} \cup Operands, MaxArgs)}
    \cup {[fn |-> "Detect", override |-> o, env |-> e] :
        o \in LocaleNames, e \in [LC_ALL : LocaleNames, LC_CTYPE : LocaleNames, LANG : LocaleNames]}
    \cup {[fn |-> "ComputeWidth", rs |-> rs, tot |-> tt, mt |-> mt] :
        rs \in SeqsUpTo(Rows, MaxRows), tt \in Rows, mt \in MetricsSet}
    \cup {[fn |-> "FormatLine", row |-> rw, mt |-> mt, width |-> w] :
        rw \in Rows, mt \in MetricsSet, w \in Widths}
    \cup {[fn |-> "readFiles0From", file |-> f] : f \in ListFiles}
    \cup {[fn |-> "bytesReader.Read", b |-> b, off |-> 0, reads |-> 0] : b \in Inputs}

CallInit ==
    /\ call \in Calls
    /\ ret = NoRet
    /\ m = DefaultMetrics
    /\ opt = [BufferSize |-> MinReadBufferSize, Locale |-> LocaleUTF8]
    /\ ScanIdle
    /\ PoolIdle

\* main, lines 197 and 212-225
CallSelectMetrics ==
    /\ call.fn = "SelectMetrics" /\ ret.fn = "none"
    /\ ret' = [fn |-> call.fn, val |-> SelectMetrics(parseArgs(call.args, 1, NoFlags))]
    /\ UNCHANGED <<call, scanVars, confVars, poolVars>>

CallDetect ==
    /\ call.fn = "Detect" /\ ret.fn = "none"
    /\ ret' = [fn |-> call.fn, val |-> Detect(call.override, call.env)]
    /\ UNCHANGED <<call, scanVars, confVars, poolVars>>

CallComputeWidth ==
    /\ call.fn = "ComputeWidth" /\ ret.fn = "none"
    /\ ret' = [fn |-> call.fn, val |-> ComputeWidth(call.rs, call.tot, call.mt)]
    /\ UNCHANGED <<call, scanVars, confVars, poolVars>>

CallFormatLine ==
    /\ call.fn = "FormatLine" /\ ret.fn = "none"
    /\ ret' = [fn |-> call.fn, val |-> FormatLine(call.row, call.mt, call.width)]
    /\ UNCHANGED <<call, scanVars, confVars, poolVars>>

\* main, line 231
CallReadFiles0From ==
    /\ call.fn = "readFiles0From" /\ ret.fn = "none"
    /\ ret' = [fn |-> call.fn, val |-> readFiles0From(call.file)]
    /\ UNCHANGED <<call, scanVars, confVars, poolVars>>

\* one Read(p) on a bytesReader{b, off}: what it returns, the bytes it put in
\* p, and all the bytes the calls so far have put there
CallBytesRead ==
    /\ call.fn = "bytesReader.Read" /\ call.reads < MaxReads
    /\ \E lp \in ReadSizes :
          LET u == SrcRead(BytesSource(call.b), call.off, lp)
              p == SubSeq(call.b, call.off + 1, call.off + u.n)
          IN /\ call' = [call EXCEPT !.off = @ + u.n, !.reads = @ + 1]
             /\ ret' = [fn |-> call.fn, lenp |-> lp, from |-> call.off, n |-> u.n,
                        err |-> u.err, p |-> p,
                        got |-> (IF ret.fn = "none" THEN <<>> ELSE ret.got) \o p]
    /\ UNCHANGED <<scanVars, confVars, poolVars>>

CallNext ==
    \/ CallSelectMetrics \/ CallDetect \/ CallComputeWidth \/ CallFormatLine
    \/ CallReadFiles0From \/ CallBytesRead

CallSpec == CallInit /\ [][CallNext]_vars

\* ---------------------------------------------------------- main's results
Ran == startup = "run" /\ PoolDone

\* the results that exist: released, pending, or in a worker's hand
Produced ==
    {all[k] : k \in 1..Len(all)} \cup {pending[k] : k \in DOMAIN pending}
        \cup {wfr[w] : w \in {v \in Workers : wpc[v] = "send"}}

SameCounts(x, y) == [x EXCEPT !.Index = 0] = [y EXCEPT !.Index = 0]

\* positions of all whose result carries no error
Good == {k \in 1..Len(all) : all[k].Err = "nil"}

\* the sum of field fld of all[k] over the positions k in S
RECURSIVE SumOver(_, _)
SumOver(S, fld) ==
    IF S = {} THEN 0
    ELSE LET k == CHOOSE x \in S : TRUE IN all[k][fld] + SumOver(S \ {k}, fld)

\* the largest field fld of all[k] over S, 0 when S is empty
MaxOver(S, fld) ==
    IF S = {} THEN 0
    ELSE LET k == CHOOSE x \in S : \A y \in S : all[y][fld] <= all[x][fld] IN all[k][fld]

TotalsAreOfGood ==
    /\ totals.Lines = SumOver(Good, "Lines")
    /\ totals.Words = SumOver(Good, "Words")
    /\ totals.Bytes = SumOver(Good, "Bytes")
    /\ totals.Chars = SumOver(Good, "Chars")
    /\ totals.MaxLineBytes = MaxOver(Good, "MaxLineBytes")
    /\ totals.MaxLineChars = MaxOver(Good, "MaxLineChars")

\* ------------------------------------------------------------------ C3
\* C3: whatever the order in which workers finish, the results released are
\* those of inputs 0, 1, ... in that order, and at the end all of them.
C3_ReleasedInInputOrder ==
    /\ \A k \in 1..Len(all) : all[k].Index = k - 1 /\ all[k].Filename = inputs[k]
    /\ Ran => Len(all) = N

\* a later input was received first, and the run ended
C3_Witness ==
    /\ Ran /\ Len(all) = 2
    /\ arrivals = <<1, 0>>

\* ------------------------------------------------------------------ C4
\* C4: standard input is read at most once, never by two workers at a time,
\* and a worker uses stdinData/stdinErr only after that read has finished.
C4_StdinReadOnce ==
    /\ stdinReads <= 1
    /\ Cardinality({w \in Workers : wpc[w] = "reading"}) <= 1
    /\ \A w \in Workers :
          wpc[w] = "use" =>
              /\ onceDone
              /\ stdinReads = 1
              /\ \A v \in Workers : wpc[v] # "reading"

\* two workers hold a "-" job after the one read
C4_Witness ==
    \E w, v \in Workers :
        /\ w # v /\ wpc[w] = "use" /\ wpc[v] = "use"
        /\ stdinReads = 1

\* ------------------------------------------------------------------ C5
\* C5: every occurrence of "-" gets the same counts, or the same error, and
\* the run never gets stuck before it has exited.
C5_StdinResultsIdentical ==
    /\ \A x, y \in Produced :
          (x.Filename = StdinName /\ y.Filename = StdinName) => SameCounts(x, y)
    /\ PoolDone \/ CanStep

\* "-" given twice to more than one worker, counted, and the run over
C5_Witness ==
    /\ Ran /\ Cardinality(Workers) > 1 /\ Len(all) = 2
    /\ all[1].Filename = StdinName /\ all[2].Filename = StdinName
    /\ all[1].Err = "nil" /\ all[1].Words > 0
    /\ arrivals = <<1, 0>>

\* ------------------------------------------------------------------ C7
\* C7: the totals are the sums of Lines, Words, Bytes, Chars and the maxima of
\* MaxLineBytes, MaxLineChars over the results without error, and no others.
C7_TotalsOverGoodResults == Ran => TotalsAreOfGood

\* a failed result with counts of its own next to a good one
C7_Witness ==
    /\ Ran /\ Len(all) = 2
    /\ \E k \in 1..2 : all[k].Err # "nil" /\ all[k].Bytes > 0 /\ all[k].Lines > 0
    /\ \E k \in 1..2 : all[k].Err = "nil" /\ all[k].MaxLineBytes > 0
    /\ totals.Lines > 0

\* ------------------------------------------------------------------ C8
SomeError == \E k \in 1..Len(all) : all[k].Err # "nil"

\* C8 as stated: a failed result adds nothing to the totals and stops no other
\* input, and the exit status is 1 exactly when some result carries an error.
C8_ExitStatusIffError ==
    PoolDone =>
        /\ TotalsAreOfGood
        /\ startup = "run" => Len(all) = N
        /\ status = 1 <=> SomeError
        /\ status = 0 <=> ~SomeError

\* C8 as amended: the same for a run that gets as far as counting; a run that
\* option handling or the --files0-from list ends earlier has no results, and
\* exits 1 for a bad option or an unreadable list.
C8_ErrorsIsolated ==
    PoolDone =>
        /\ TotalsAreOfGood
        /\ startup = "run" =>
              /\ Len(all) = N
              /\ status = 1 <=> SomeError
              /\ status = 0 <=> ~SomeError
        /\ startup # "run" =>
              /\ all = <<>>
              /\ status = 1 <=> startup \in {"badflag", "badlist"}
              /\ status = 0 <=> startup \in {"help", "version"}

\* the first input failed, the second was counted and is in the totals
C8_Witness ==
    /\ Ran /\ Len(all) = 2 /\ status = 1
    /\ all[1].Err # "nil" /\ all[2].Err = "nil"
    /\ totals.Bytes = all[2].Bytes /\ totals.Bytes > 0

\* ------------------------------------------------------ what a count should be
\* bytes consumed by CountReader so far
Consumed == rd.off - rd.buffered

\* the run ended at end-of-stream, without error
CleanDone == pc = "done" /\ src.term = "EOF"

Counts4(r) == <<r.Lines, r.Words, r.Bytes, r.Chars>>

\* offsets at which a decoder reading d front to back starts a rune
RECURSIVE RuneStarts(_, _)
RuneStarts(d, p) ==
    IF p >= Len(d) THEN {}
    ELSE {p} \cup RuneStarts(d, p + DecodeRune(SubSeq(d, p + 1, Len(d))).size)

\* the runes of d that a cut after pos bytes splits
SplitStarts(d, pos) ==
    {p \in RuneStarts(d, 0) : p < pos /\ pos < p + DecodeRune(SubSeq(d, p + 1, Len(d))).size}

\* length of the longest '\n'-delimited line of d, in bytes
RECURSIVE LongestLine(_, _, _, _)
LongestLine(d, k, cur, best) ==
    IF k > Len(d) THEN Max(cur, best)
    ELSE IF d[k] = NL THEN LongestLine(d, k + 1, 0, Max(cur, best))
    ELSE LongestLine(d, k + 1, cur + 1, best)

IsAscii(d) == \A k \in 1..Len(d) : d[k] < RuneSelf

\* ------------------------------------------------------------------ C1
\* C1 (chunk-invariance): a stream counted with any other buffer size gives
\* the same Lines, Words, Bytes, Chars, MaxLineBytes and MaxLineChars.
C1_ChunkInvariance ==
    CleanDone =>
        \A b2 \in BufferSizes :
            CountReader(src, m, [opt EXCEPT !.BufferSize = b2]) = ResultOf(st)

\* ------------------------------------------------------------------ C2
\* C2: in decoding mode the leading bytes of a code point that the chunk
\* boundary splits are in carry when the chunk has been processed, and the
\* code point is counted as one character.
C2_SplitRuneCarried ==
    /\ (pc = "check" /\ ~st.asciiMode /\ Len(chunk) > 0) =>
           \A p \in SplitStarts(src.data, Consumed) :
               st.carry = SubSeq(src.data, p + 1, Consumed)
    /\ (CleanDone /\ m.Chars /\ ~opt.Locale.IsCOrPOSIX) =>
           st.Chars = Cardinality(RuneStarts(src.data, 0))

\* ------------------------------------------------------------------ C6
\* C6: MaxLineBytes is the length of the longest '\n'-delimited line, also
\* when lines is not selected; so is MaxLineChars where a character is a byte.
C6_MaxLinePerLineReset ==
    (pc = "done" /\ st.Err = "nil") =>
        /\ m.MaxLineBytes => st.MaxLineBytes = LongestLine(src.data, 1, 0, 0)
        /\ (m.MaxLineChars /\ (opt.Locale.IsCOrPOSIX \/ IsAscii(src.data))) =>
               st.MaxLineChars = LongestLine(src.data, 1, 0, 0)

WordAcross(a, b) ==
    /\ Len(a) > 0 /\ Len(b) > 0
    /\ ~asciiSpace(a[Len(a)]) /\ ~asciiSpace(b[1])

Plus4(x, y) == <<x.Lines + y.Lines, x.Words + y.Words, x.Bytes + y.Bytes, x.Chars + y.Chars>>

\* every way of cutting the scanned stream in two
Cuts == {k \in 0..Len(src.data) : TRUE}
PartA(k) == CountBytes(SubSeq(src.data, 1, k), m, opt)
PartB(k) == CountBytes(SubSeq(src.data, k + 1, Len(src.data)), m, opt)

\* C10 as stated (sum law): Lines, Words, Bytes and Chars of A and of B add
\* up to those of A.B.
C10_SumLaw ==
    CleanDone => \A k \in Cuts : Plus4(PartA(k), PartB(k)) = Counts4(st)

\* C10 as amended: Lines and Bytes add up always; where every character is
\* one byte (byte-oriented locale, or ASCII streams) Chars add up, and Words
\* add up except for the word that runs across the junction, which the sum
\* counts twice.
C10_SumLawAmended ==
    CleanDone =>
        \A k \in Cuts :
            LET a == PartA(k)
                b == PartB(k)
                A == SubSeq(src.data, 1, k)
                B == SubSeq(src.data, k + 1, Len(src.data))
            IN /\ a.Lines + b.Lines = st.Lines
               /\ a.Bytes + b.Bytes = st.Bytes
               /\ (opt.Locale.IsCOrPOSIX \/ IsAscii(src.data)) =>
                      /\ a.Chars + b.Chars = st.Chars
                      /\ a.Words + b.Words =
                             st.Words + (IF m.Words /\ WordAcross(A, B) THEN 1 ELSE 0)

\* "aa": one word, which a cut in the middle counts twice
C10_Witness ==
    /\ CleanDone /\ m.Words /\ m.Chars /\ m.Lines
    /\ st.Words = 1 /\ st.Chars = 2 /\ st.Bytes = 2
    /\ \E k \in Cuts : PartA(k).Words + PartB(k).Words = 2

\* ------------------------------------------------- what a scan should count
\* the six counters selected together
Selected == m.Lines /\ m.Words /\ m.Bytes /\ m.Chars /\ m.MaxLineBytes /\ m.MaxLineChars

\* number of 0x0A bytes of d
CountNL(d) == Cardinality({k \in 1..Len(d) : d[k] = NL})

\* number of maximal runs of non-whitespace characters of d read from offset p:
\* characters are bytes under a byte-oriented locale, else the code points of
\* d decoded front to back, an invalid byte being one non-whitespace character
RECURSIVE WordRuns(_, _, _, _)
WordRuns(d, p, prev, byteOriented) ==
    IF p >= Len(d) THEN 0
    ELSE LET x == DecodeRune(SubSeq(d, p + 1, Len(d)))
             bad == x.r = RuneError /\ x.size = 1
             sp == IF byteOriented \/ bad THEN asciiSpace(d[p + 1]) ELSE IsSpace(x.r)
             size == IF byteOriented THEN 1 ELSE x.size
         IN (IF ~sp /\ prev THEN 1 ELSE 0) + WordRuns(d, p + size, sp, byteOriented)

\* the bytes after the last '\n' of d
LastLine(d) ==
    LET nls == {k \in 1..Len(d) : d[k] = NL}
        from == IF nls = {} THEN 0 ELSE CHOOSE k \in nls : \A j \in nls : j <= k
    IN SubSeq(d, from + 1, Len(d))

\* the number of characters of d
CharsOf(d, byteOriented) ==
    IF byteOriented THEN Len(d) ELSE Cardinality(RuneStarts(d, 0))

\* the head of d is a byte that utf8.DecodeRune rejects
BadHead(d) == Len(d) > 0 /\ DecodeRune(d).r = RuneError /\ DecodeRune(d).size = 1

ByteValues == 0..255

\* ------------------------------------------------------------------ C11
\* C11 (fast-path equivalence): ASCII-only bytes counted under a UTF-8 locale
\* stay on the fast path and give, for every metric, the result of the
\* decoding path (locale with neither flag) on the same bytes.
C11_FastPathEquivalence ==
    (pc = "done" /\ IsAscii(src.data) /\ opt.Locale = LocaleUTF8) =>
        /\ st.asciiMode
        /\ ResultOf(st) = CountReader(src, m, [opt EXCEPT !.Locale = LocaleOther])

\* "a b\n" counted on the fast path, every metric selected
C11_Witness ==
    /\ pc = "done" /\ opt.Locale = LocaleUTF8 /\ st.asciiMode
    /\ src = BytesSource(<<97, 32, 98, 10>>)
    /\ Selected
    /\ st.Words = 2 /\ st.Chars = 4 /\ st.Lines = 1 /\ st.MaxLineBytes = 3

\* ------------------------------------------------------------------ C12
\* C12: with words selected, Words is the number of maximal runs of
\* non-whitespace characters of the stream, wherever the chunk boundaries and
\* the switch to decoding fall.
C12_WordsEdgeTriggered ==
    (CleanDone /\ m.Words) =>
        st.Words = WordRuns(src.data, 0, TRUE, opt.Locale.IsCOrPOSIX)

\* ------------------------------------------------------------------ C13
\* C13: with lines selected, Lines is the number of 0x0A bytes of the input in
\* every mode; U+0085, U+2028 and invalid bytes add nothing.
C13_LinesAreNewlineBytes ==
    (pc = "done" /\ m.Lines) => st.Lines = CountNL(src.data)

\* U+0085 and a '\n' counted by the decoding path
C13_Witness ==
    /\ pc = "done" /\ opt.Locale = LocaleUTF8 /\ ~st.asciiMode
    /\ src.data = <<194, 133, 10>> /\ m.Lines /\ m.Chars
    /\ st.Lines = 1 /\ st.Chars = 2

\* ------------------------------------------------------------------ C14
\* C14: under a byte-oriented locale, IsUTF8 set or not, the scan never leaves
\* the fast path: every byte is one character, and only the ASCII table
\* decides what is whitespace.
C14_ByteOrientedLocale ==
    opt.Locale.IsCOrPOSIX =>
        /\ st.asciiMode /\ pc # "decode" /\ st.carry = <<>>
        /\ (pc = "done" /\ m.Chars) => st.Chars = st.Bytes
        /\ (pc = "done" /\ m.Words) => st.Words = WordRuns(src.data, 0, TRUE, TRUE)

\* "a" U+00A0 "a" with both flags set: four characters, one word
C14_Witness ==
    /\ pc = "done" /\ opt.Locale = LocaleBoth
    /\ src.data = <<97, 194, 160, 97>> /\ m.Chars /\ m.Words
    /\ st.Chars = 4 /\ st.Bytes = 4 /\ st.Words = 1

\* ------------------------------------------------------------------ C15
\* C15: of the 256 entries of the ASCII whitespace table exactly six are true:
\* 0x09, 0x0A, 0x0B, 0x0C, 0x0D and 0x20; the fast path, which consults it,
\* has in prevSpace the entry of the byte it has just seen.
C15_AsciiSpaceTable ==
    pc = "ascii" =>
        /\ \A b \in ByteValues : asciiSpace(b) <=> b \in {9, 10, 11, 12, 13, 32}
        /\ Cardinality({b \in ByteValues : asciiSpace(b)}) = 6
        /\ (i > 1 /\ m.Words) =>
               (st.prevSpace <=> chunk[i - 1] \in {9, 10, 11, 12, 13, 32})

\* the fast path has just looked up a tab
C15_Witness ==
    /\ pc = "ascii" /\ i > 1 /\ m.Words
    /\ chunk[i - 1] = 9 /\ st.prevSpace

\* ------------------------------------------------------------------ C16
\* C16: an invalid byte met by the decoding loop is one character of one byte:
\* Chars (if selected) grows by 1, the cursor moves 1 byte on, no error is
\* set, and the loop goes on with the next byte.
C16_InvalidByteAbsorbed ==
    [][(pc = "decode" /\ BadHead(data)) =>
          /\ st'.Chars = st.Chars + (IF m.Chars THEN 1 ELSE 0)
          /\ data' = Tail(data)
          /\ st'.Err = "nil"
          /\ st'.Bytes = st.Bytes
          /\ pc' = "decode"]_vars

\* "a" 0x80 "a\n": four characters, one line, no error
C16_Witness ==
    /\ pc = "done" /\ opt.Locale = LocaleUTF8
    /\ src = BytesSource(<<97, 128, 97, 10>>) /\ m.Chars /\ m.Lines
    /\ st.Chars = 4 /\ st.Lines = 1 /\ st.Err = "nil"

\* ------------------------------------------------------------------ C17
\* C17 (mode monotonicity): the mode changes only from the fast path to
\* decoding, on a chunk with a byte >= 0x80 under a locale that is not
\* byte-oriented; once decoding, every later chunk is decoded.
C17_ModeMonotone ==
    [][/\ ~st.asciiMode => (~st'.asciiMode /\ pc' # "ascii")
       /\ (st.asciiMode /\ ~st'.asciiMode) =>
              /\ pc = "read" /\ pc' = "decode"
              /\ ~opt.Locale.IsCOrPOSIX
              /\ \E k \in 1..Len(chunk') : chunk'[k] >= RuneSelf]_vars

\* "a" 0x80 "a\n" read byte by byte: the third chunk, "a", is being decoded
C17_Witness ==
    /\ pc = "decode" /\ opt.Locale = LocaleUTF8 /\ opt.BufferSize = 1
    /\ src.data = <<97, 128, 97, 10>> /\ Consumed = 3
    /\ chunk = <<97>> /\ ~st.asciiMode

\* ------------------------------------------------------------------ C18
\* C18: at end of stream without error the max-line values are at least the
\* length of the last line, also when no '\n' ends it.
C18_FinalLineCounted ==
    CleanDone =>
        /\ m.MaxLineBytes => st.MaxLineBytes >= Len(LastLine(src.data))
        /\ m.MaxLineChars =>
               st.MaxLineChars >= CharsOf(LastLine(src.data), opt.Locale.IsCOrPOSIX)

\* "\na": the only line with bytes is the unterminated last one
C18_Witness ==
    /\ CleanDone /\ src.data = <<10, 97>> /\ Selected
    /\ st.MaxLineBytes = 1 /\ st.MaxLineChars = 1

\* ------------------------------------------------------------------ C19
\* C19: no step of CountReader lowers Lines, Words, Bytes, Chars,
\* MaxLineBytes or MaxLineChars.
C19_CountsNonDecreasing ==
    [][/\ st'.Lines >= st.Lines
       /\ st'.Words >= st.Words
       /\ st'.Bytes >= st.Bytes
       /\ st'.Chars >= st.Chars
       /\ st'.MaxLineBytes >= st.MaxLineBytes
       /\ st'.MaxLineChars >= st.MaxLineChars]_vars

\* "aa\na\n": a shorter line after the longest
C19_Witness ==
    /\ pc = "done" /\ src.data = <<97, 97, 10, 97, 10>> /\ Selected
    /\ st.Lines = 2 /\ st.MaxLineBytes = 2 /\ st.MaxLineChars = 2 /\ st.Words = 2

\* ------------------------------------------------------------------ C20
NoCounts ==
    [Lines |-> 0, Words |-> 0, Bytes |-> 0, Chars |-> 0,
     MaxLineBytes |-> 0, MaxLineChars |-> 0, Err |-> "nil"]

\* C20: the empty input gives a result with every counter 0 and no error,
\* whatever the metrics, the locale and the chunk size.
C20_EmptyInput ==
    (pc = "done" /\ src = BytesSource(<<>>)) =>
        /\ ResultOf(st) = NoCounts
        /\ CountBytes(<<>>, m, opt) = NoCounts

\* the empty input scanned to the end with every metric selected
C20_Witness ==
    /\ pc = "done" /\ src = BytesSource(<<>>) /\ Selected
    /\ opt.BufferSize = 1 /\ opt.Locale = LocaleUTF8

\* ------------------------------------------------------------------ C21
\* C21: with no metric flag on the command line the metrics are lines, words
\* and bytes; with any metric flag they are exactly the metrics whose flag
\* (short or long) was given.
\* a flag is given when it stands before the first operand
Given(names) ==
    \E k \in 1..Len(call.args) :
        call.args[k] \in names /\ \A j \in 1..(k - 1) : call.args[j] \notin {"f", "-"}

C21_DefaultMetrics ==
    ret.fn = "SelectMetrics" =>
        IF ~Given({"-c", "--bytes", "-m", "--chars", "-l", "--lines", "-w", "--words",
                   "-L", "--max-line-length", "--max-line-length-chars"})
        THEN ret.val = [Lines |-> TRUE, Words |-> TRUE, Bytes |-> TRUE, Chars |-> FALSE,
                        MaxLineBytes |-> FALSE, MaxLineChars |-> FALSE]
        ELSE ret.val = [Lines |-> Given({"-l", "--lines"}),
                        Words |-> Given({"-w", "--words"}),
                        Bytes |-> Given({"-c", "--bytes"}),
                        Chars |-> Given({"-m", "--chars"}),
                        MaxLineBytes |-> Given({"-L", "--max-line-length"}),
                        MaxLineChars |-> Given({"--max-line-length-chars"})]

C21_Witness ==
    /\ ret.fn = "SelectMetrics"
    /\ call.args = <<"-L", "--chars">>
    /\ ret.val.MaxLineBytes /\ ret.val.Chars
    /\ ~ret.val.Lines /\ ~ret.val.Words /\ ~ret.val.Bytes

\* ------------------------------------------------------------------ C22
RECURSIVE NDigits(_)
NDigits(v) == IF v < 10 THEN 1 ELSE 1 + NDigits(v \div 10)

RECURSIVE Pow10(_)
Pow10(n) == IF n = 0 THEN 1 ELSE 10 * Pow10(n - 1)

\* the decimal digits of v, the most significant first
Decimal(v) == [k \in 1..NDigits(v) |-> Digits[((v \div Pow10(NDigits(v) - k)) % 10) + 1]]

\* v in decimal, with spaces in front up to the width
RightAligned(v, width) ==
    [k \in 1..(IF width > NDigits(v) THEN width - NDigits(v) ELSE 0) |-> " "] \o Decimal(v)

RECURSIVE SingleSpaced(_)
SingleSpaced(parts) ==
    IF Len(parts) = 0 THEN <<>>
    ELSE parts[1] \o (IF Len(parts) > 1 THEN <<" ">> \o SingleSpaced(Tail(parts)) ELSE <<>>)

C22_Order == <<"Lines", "Words", "Chars", "Bytes", "MaxLineBytes", "MaxLineChars">>

\* C22: FormatLine writes the selected metrics in the order lines, words,
\* chars, bytes, max-line-bytes, max-line-chars, each right-aligned to the
\* width, then the filename if it is not empty, with single spaces between;
\* with no metric selected the line is the filename alone.
C22_FormatLineLayout ==
    ret.fn = "FormatLine" =>
        LET cols == SelectSeq(C22_Order, LAMBDA f : call.mt[f])
            nums == [k \in 1..Len(cols) |-> RightAligned(call.row[cols[k]], call.width)]
            name == IF call.row.Filename # <<>> THEN <<call.row.Filename>> ELSE <<>>
        IN /\ ret.val = SingleSpaced(nums \o name)
           /\ Len(cols) = 0 => ret.val = call.row.Filename

C22_Witness ==
    /\ ret.fn = "FormatLine"
    /\ call.row.Filename = <<"f">> /\ call.width = MinWidth
    /\ call.mt.Chars /\ call.mt.Bytes /\ ~call.mt.Lines /\ ~call.mt.Words
    /\ ~call.mt.MaxLineBytes /\ ~call.mt.MaxLineChars
    /\ ret.val = <<" ", " ", " ", " ", " ", "1", "1", " ",
                   " ", " ", " ", " ", " ", "1", "2", " ", "f">>

\* ------------------------------------------------------------------ C23
\* C23: ComputeWidth is the larger of 7 and the number of decimal digits of the
\* largest selected metric value over the results without an error and the
\* totals.
C23_ComputeWidth ==
    ret.fn = "ComputeWidth" =>
        LET sel == {f \in DOMAIN call.mt : call.mt[f]}
            good == {k \in 1..Len(call.rs) : call.rs[k].Err = "nil"}
            vals == {0} \cup {call.rs[k][f] : k \in good, f \in sel}
                        \cup {call.tot[f] : f \in sel}
            big == CHOOSE v \in vals : \A u \in vals : u <= v
        IN ret.val = IF NDigits(big) > 7 THEN NDigits(big) ELSE 7

C23_Witness ==
    /\ ret.fn = "ComputeWidth"
    /\ call.mt.Bytes
    /\ \E k \in 1..Len(call.rs) : call.rs[k].Err # "nil" /\ call.rs[k].Bytes = 1234567890
    /\ \E k \in 1..Len(call.rs) : call.rs[k].Err = "nil" /\ call.rs[k].Bytes = 123456789
    /\ call.tot.Bytes = 12
    /\ ret.val = 9

\* ------------------------------------------------------------------ C24
NoEnv == [LC_ALL |-> <<>>, LC_CTYPE |-> <<>>, LANG |-> <<>>]

\* C24: Detect takes the locale from the first that is not empty of the
\* override, LC_ALL, LC_CTYPE and LANG; when all are empty it is UTF-8; a
\* value of exactly C or POSIX gives IsCOrPOSIX, and from the environment the
\* Encoding "C".
C24_DetectPrecedence ==
    ret.fn = "Detect" =>
        LET o == call.override
            e == call.env
            v == IF o # <<>> THEN o
                 ELSE IF e.LC_ALL # <<>> THEN e.LC_ALL
                 ELSE IF e.LC_CTYPE # <<>> THEN e.LC_CTYPE
                 ELSE e.LANG
        IN /\ ret.val = IF o # <<>> THEN Detect(o, NoEnv)
                        ELSE Detect(<<>>, [NoEnv EXCEPT !.LANG = v])
           /\ v = <<>> =>
                ret.val = [Encoding |-> <<"u", "t", "f", "-", "8">>, IsUTF8 |-> TRUE, IsCOrPOSIX |-> FALSE]
           /\ v \in {<<"C">>, <<"P", "O", "S", "I", "X">>} =>
                /\ ret.val.IsCOrPOSIX
                /\ ~ret.val.IsUTF8
                /\ o = <<>> => ret.val.Encoding = <<"C">>

C24_Witness ==
    /\ ret.fn = "Detect"
    /\ call.override = <<>> /\ call.env.LC_ALL = <<>>
    /\ call.env.LC_CTYPE = <<"P", "O", "S", "I", "X">>
    /\ call.env.LANG = <<"e", "n", "_", "U", "S", ".", "U", "T", "F", "-", "8">>
    /\ ret.val = [Encoding |-> <<"C">>, IsUTF8 |-> FALSE, IsCOrPOSIX |-> TRUE]

\* ------------------------------------------------------------------ C25
\* C25 (reassembler): all holds the results 0..next-1 in that order, every
\* key of pending is at least next, and once released what can be released,
\* pending does not hold next.
C25_ReassemblerInvariant ==
    /\ Len(all) = next
    /\ \A k \in 1..Len(all) : all[k].Index = k - 1
    /\ \A k \in DOMAIN pending : k >= next /\ pending[k].Index = k
    /\ next \notin DOMAIN pending

\* result 1 has arrived and is withheld: result 0 is still to come
C25_Witness ==
    /\ mpc = "collect" /\ next = 0 /\ all = <<>>
    /\ DOMAIN pending = {1}

\* ------------------------------------------------------------------ C26
\* the workers with job j in hand
Holders(j) == {w \in Workers : wpc[w] \notin {"recv", "exit"} /\ wjob[w].idx = j}

\* how many results with index j main has received
TimesReceived(j) == Cardinality({k \in 1..Len(arrivals) : arrivals[k] = j})

\* C26: every job goes to exactly one worker and gives exactly one result with
\* the job's index; after the collection loop all has one entry per index
\* 0..n-1 and pending is empty.
C26_EachJobOnce ==
    /\ \A j \in 0..(sent - 1) : Cardinality(Holders(j)) + TimesReceived(j) = 1
    /\ \A j \in sent..(N - 1) : Holders(j) = {} /\ TimesReceived(j) = 0
    /\ \A w \in Workers :
          wpc[w] = "send" =>
              wfr[w].Index = wjob[w].idx /\ wfr[w].Filename = inputs[wjob[w].idx + 1]
    /\ (startup = "run" /\ mpc \in {"wait", "exited"}) =>
          /\ Len(all) = N
          /\ \A j \in 0..(N - 1) : Cardinality({k \in 1..Len(all) : all[k].Index = j}) = 1
          /\ DOMAIN pending = {}

\* two workers have had one job each, and the collection loop is over
C26_Witness ==
    /\ mpc = "wait" /\ N = 2 /\ Cardinality(Workers) = 2
    /\ wjob[1].idx # wjob[2].idx
    /\ Len(all) = 2

\* ------------------------------------------------------------------ C28
\* C28: max(1, jobs) workers are started; with jobs zero or negative that is
\* one worker, and the run still handles every input.
C28_WorkerCount ==
    /\ (startup = "run" /\ mpc # "start") => Cardinality(Workers) = Max(1, cfgJobs)
    /\ Ran => Len(all) = N

\* jobs = -1: one worker has handled two inputs
C28_Witness ==
    /\ Ran /\ cfgJobs = -1 /\ Cardinality(Workers) = 1
    /\ N = 2 /\ Len(all) = 2

\* ------------------------------------------------------------------ C29
\* C29: once r.Read has returned an error other than EOF, with bytes or
\* without, on the fast path or while decoding, CountReader reads no more and
\* the result carries that error.
C29_FirstErrorEndsScan ==
    /\ ~(pc = "read" /\ rerr = "err")
    /\ (pc = "done" /\ src.term = "err") => st.Err = "err"

\* ------------------------------------------------------------------ C30
MetricNames == {"Lines", "Words", "Bytes", "Chars", "MaxLineBytes", "MaxLineChars"}

\* C30 (independent selectors): the value of a selected metric is the same
\* under every other selection that has it.
C30_MetricsIndependent ==
    pc = "done" =>
        \A m2 \in MetricsSet :
            \A f \in MetricNames :
                (m[f] /\ m2[f]) => CountReader(src, m2, opt)[f] = st[f]

\* ------------------------------------------------------------------ C27
\* C27 (termination): under fair scheduling every run comes to its end, and a
\* run that counts ends with every job sent, the queue closed, every result
\* received, every worker gone and the WaitGroup at zero.
C27_RunTerminates ==
    <>(/\ PoolDone
       /\ startup = "run" =>
             /\ sent = N /\ closed /\ received = N /\ wg = 0
             /\ \A w \in Workers : wpc[w] = "exit")

\* two workers for one input: the worker that never had a job has left too
C27_Witness ==
    /\ Ran /\ Cardinality(Workers) = 2 /\ N = 1
    /\ \A w \in Workers : wpc[w] = "exit"

\* ------------------------------------------------------------------ C31
\* the bytes read that no loop has gone over yet
Pending ==
    Len(st.carry) + (CASE pc = "ascii" -> Len(chunk) - i + 1
                       [] pc = "decode" -> Len(data)
                       [] OTHER -> 0)

\* C31: carry holds between 0 and 3 bytes in every state, and every byte read
\* is gone over exactly once: with lines off and max-line-bytes on the running
\* line length is never reset, and it is the number of bytes read less those
\* still waiting; on the fast path the characters counted are the bytes read.
C31_CarryBoundedBytesOnce ==
    /\ Len(st.carry) \in 0..3
    /\ (m.MaxLineBytes /\ ~m.Lines) => st.curLineBytes + Pending = st.Bytes
    /\ (pc = "done" /\ m.Chars /\ st.asciiMode) => st.Chars = st.Bytes

\* U+00A0 cut in two by chunks of one byte, each byte gone over once
C31_Witness ==
    /\ pc = "done" /\ st.Err = "nil"
    /\ src.data = <<194, 160>> /\ opt.BufferSize = 1 /\ opt.Locale = LocaleUTF8
    /\ m.MaxLineBytes /\ ~m.Lines
    /\ st.carry = <<>> /\ st.curLineBytes = 2 /\ st.Bytes = 2

\* ------------------------------------------------------------------ C32
\* the counters and the locals that the loops change
Counted(s) ==
    <<s.Lines, s.Words, s.Chars, s.MaxLineBytes, s.MaxLineChars,
      s.prevSpace, s.curLineBytes, s.curLineChars>>

\* C32: under a UTF-8 locale the chunk in which the first byte >= 0x80 is seen
\* goes to the decoding loop whole: the fast path has counted nothing of it,
\* the decoding starts at its first byte, and no chunk with such a byte is
\* given to the fast path.
C32_SwitchChunkDecodedWhole ==
    [][/\ (pc = "read" /\ st.asciiMode /\ ~st'.asciiMode) =>
              /\ pc' = "decode"
              /\ data' = chunk'
              /\ Counted(st') = Counted(st)
       /\ (pc' = "ascii" /\ ~opt.Locale.IsCOrPOSIX) =>
              \A k \in 1..Len(chunk') : chunk'[k] < RuneSelf]_vars

\* "a" and the first byte of U+00A0 in one chunk, after the switch
C32_Witness ==
    /\ pc = "decode" /\ ~st.asciiMode /\ opt.Locale = LocaleUTF8
    /\ chunk = <<97, 194>> /\ data = chunk
    /\ st.Bytes = 2 /\ st.Chars = 0 /\ st.Words = 0

\* ------------------------------------------------------------------ C33
\* C33: on every finite source and with every buffer size from 0 on,
\* CountReader comes to its return after finitely many reads.
C33_ScanTerminates == <>(pc = "done")

\* ------------------------------------------------------------------ C34
\* C34: a counter whose metric is not selected stays 0, except Bytes, which is
\* the number of bytes read whether selected or not.
C34_UnselectedUntouched ==
    /\ \A f \in {"Lines", "Words", "Chars", "MaxLineBytes", "MaxLineChars"} :
           ~m[f] => st[f] = 0
    /\ st.Bytes = rd.off - rd.buffered
    /\ (pc = "done" /\ st.Err = "nil") => st.Bytes = Len(src.data)

\* "a\n" with nothing selected
C34_Witness ==
    /\ pc = "done" /\ src.data = <<97, 10>> /\ st.Err = "nil"
    /\ \A f \in DOMAIN m : ~m[f]
    /\ st.Bytes = 2
    /\ st.Lines = 0 /\ st.Words = 0 /\ st.Chars = 0
    /\ st.MaxLineBytes = 0 /\ st.MaxLineChars = 0

\* ------------------------------------------------------------------ C35
\* C35: with all metrics selected, between chunks and at the end,
\* Chars <= Bytes, Lines <= Chars, Words <= Chars,
\* MaxLineChars <= MaxLineBytes and MaxLineBytes <= Bytes.
C35_CrossMetricBounds ==
    ((\A f \in DOMAIN m : m[f]) /\ pc \in {"read", "check", "final", "done"}) =>
        /\ st.Chars <= st.Bytes
        /\ st.Lines <= st.Chars
        /\ st.Words <= st.Chars
        /\ st.MaxLineChars <= st.MaxLineBytes
        /\ st.MaxLineBytes <= st.Bytes

\* "a" U+00A0 "a": fewer characters than bytes
C35_Witness ==
    /\ pc = "done" /\ st.Err = "nil" /\ \A f \in DOMAIN m : m[f]
    /\ src.data = <<97, 194, 160, 97>> /\ opt.Locale = LocaleUTF8
    /\ opt.BufferSize = MinReadBufferSize
    /\ st.Chars = 3 /\ st.Bytes = 4 /\ st.MaxLineChars = 3 /\ st.MaxLineBytes = 4
    /\ st.Words = 2

\* ------------------------------------------------------------------ C38
\* C38: under an encoding that is neither UTF-8 nor C, every byte is one
\* character: Chars = Bytes.
C38_SingleByteChars ==
    (pc = "done" /\ m.Chars /\ ~opt.Locale.IsUTF8 /\ ~opt.Locale.IsCOrPOSIX) =>
        st.Chars = st.Bytes

\* ------------------------------------------------------------------ C36
ZeroCounts(r) ==
    /\ r.Lines = 0 /\ r.Words = 0 /\ r.Bytes = 0 /\ r.Chars = 0
    /\ r.MaxLineBytes = 0 /\ r.MaxLineChars = 0

\* C36: when the one read of standard input fails, the result of every "-"
\* has that error and no counts; a file that cannot be opened has the open
\* error and no counts; either result has the index and the name of its job
\* and reaches the collector like every other.
C36_ErrorResultsDelivered ==
    /\ \A r \in Produced :
          /\ r.Index \in 0..(N - 1) /\ r.Filename = inputs[r.Index + 1]
          /\ (r.Filename = StdinName /\ stdinErr # "nil") =>
                 r.Err = stdinErr /\ ZeroCounts(r)
          /\ ~OpenFile(r.Filename).ok /\ r.Filename # StdinName =>
                 r.Err = "open" /\ ZeroCounts(r)
    /\ Ran => \A k \in 1..N : all[k].Index = k - 1 /\ all[k].Filename = inputs[k]

\* "-" twice after a failed read, and a file that cannot be opened
C36_Witness ==
    /\ Ran /\ stdinErr = "err" /\ inputs = <<StdinName, "x">>
    /\ all[1] = [ZeroResult EXCEPT !.Filename = StdinName, !.Err = "err"]
    /\ all[2] = [ZeroResult EXCEPT !.Index = 1, !.Filename = "x", !.Err = "open"]

\* ------------------------------------------------------------------ C37
\* the positions of all that hold a result of standard input
FromStdin == {k \in 1..Len(all) : all[k].Filename = StdinName}

\* what the run has at its end when standard input was read without error
StdinInTotals ==
    (Ran /\ stdinErr = "nil") =>
        LET sc == CountBytes(stdinData, m, opt)
            k == Cardinality(FromStdin)
        IN /\ \A f \in {"Lines", "Words", "Bytes", "Chars"} :
                  totals[f] = k * sc[f] + SumOver(Good \ FromStdin, f)
           /\ k > 0 => /\ totals.MaxLineBytes >= sc.MaxLineBytes
                       /\ totals.MaxLineChars >= sc.MaxLineChars

TotalLineIffSeveral ==
    Ran => ((\E k \in 1..Len(printed) : printed[k].Filename = "total") <=> N > 1)

NameStarts(d) == {k \in 1..Len(d) : d[k] # NUL /\ (k = 1 \/ d[k - 1] = NUL)}

\* the name that starts at k: the bytes up to the next NUL or the end
NameAt(d, k) ==
    SubSeq(d, k, CHOOSE e \in k..Len(d) :
                    /\ \A j \in k..e : d[j] # NUL
                    /\ (e = Len(d) \/ d[e + 1] = NUL))

\* C39: readFiles0From returns the names between the NULs in their order and
\* no empty one, the same with and without a NUL at the end; a list that
\* cannot be read gives an error and no names.
C39_Files0Names ==
    ret.fn = "readFiles0From" =>
        LET f == call.file
            starts == NameStarts(f.data)
        IN IF f.ok /\ f.term = "EOF"
           THEN /\ ret.val.err = "nil"
                /\ Len(ret.val.names) = Cardinality(starts)
                /\ \A k \in starts :
                      ret.val.names[Cardinality({j \in starts : j <= k})] = NameAt(f.data, k)
                /\ readFiles0From([f EXCEPT !.data = @ \o <<NUL>>]) = ret.val
           ELSE ret.val.err # "nil" /\ ret.val.names = <<>>

\* "a", two NULs, "b"
C39_Witness ==
    /\ ret.fn = "readFiles0From"
    /\ call.file = [ok |-> TRUE, term |-> "EOF", data |-> <<"a", NUL, NUL, "b">>]
    /\ ret.val = [names |-> << <<"a">>, <<"b">> >>, err |-> "nil"]

\* ------------------------------------------------------------------ C40
\* C40: each Read gives the next min(len(p), remaining) bytes, the bytes given
\* so far are the data up to the offset, a Read at the end gives (0, EOF)
\* every time, and no Read gives bytes together with EOF.
C40_BytesReaderChunks ==
    ret.fn = "bytesReader.Read" =>
        LET remaining == Len(call.b) - ret.from
        IN /\ ret.from = Len(ret.got) - ret.n
           /\ ret.got = SubSeq(call.b, 1, call.off)
           /\ IF remaining > 0
              THEN /\ ret.n = (IF ret.lenp < remaining THEN ret.lenp ELSE remaining)
                   /\ ret.err = "nil"
              ELSE ret.n = 0 /\ ret.err = "EOF"
           /\ ret.err = "EOF" => ret.n = 0 /\ ret.got = call.b

\* "a\na" in chunks of two and one, then EOF twice
C40_Witness ==
    /\ ret.fn = "bytesReader.Read"
    /\ call.b = <<97, 10, 97>> /\ call.reads = 4 /\ call.off = 3
    /\ ret.from = 3 /\ ret.n = 0 /\ ret.err = "EOF" /\ ret.got = call.b

====
